---- MODULE Spec2Model ----
(***************************************************************************)
(* Model of the layout and rendering core of graphs-tui.                   *)
(*                                                                         *)
(* Node ids are modelled as the naturals 1..MaxId; the lexicographic order *)
(* of the String ids is the numeric order.  A character is a string token; *)
(* a text (label, line of output) is a sequence of characters.             *)
(***************************************************************************)
EXTENDS Integers, Sequences, FiniteSets, TLC

VARIABLES
    graph,      \* types.rs Graph: direction, nodes, edges, subgraphs
    options,    \* types.rs RenderOptions
    hashOrder,  \* order in which the HashMaps of this run iterate their keys
    pc,         \* position in the pipeline
    layering,   \* locals of layout.rs assign_layers
    warnings,   \* Vec<DiagramWarning> threaded through layout and render
    render,     \* locals of renderer/mod.rs render_graph
    search,     \* a PathGrid and the locals of pathfinding.rs find_path
    bounds,     \* locals of layout.rs compute_subgraph_bounds
    gridCell    \* one cell of a grid.rs Grid and the calls made on it

vars == <<graph, options, hashOrder, pc, layering, warnings, render, search, bounds, gridCell>>

----------------------------------------------------------------------------
(* Bounds of the model                                                     *)

MaxId == 4
MaxEdges == 4

\* stands for usize::MAX: TLC integers are 32 bits wide, so usize is
\* modelled 31 bits wide
UsizeMax == 2147483647

IDS == 1..MaxId

----------------------------------------------------------------------------
(* Generic helpers for Option / Vec / HashMap / HashSet operations         *)

\* Option<T>: None is the empty sequence, Some(x) the one-element sequence
None == <<>>
Some(x) == <<x>>

Max2(a, b) == IF a >= b THEN a ELSE b
Min2(a, b) == IF a <= b THEN a ELSE b

\* usize::saturating_sub
SatSub(a, b) == IF a >= b THEN a - b ELSE 0

Range(s) == {s[i] : i \in 1..Len(s)}

RECURSIVE SeqFilterIn(_, _)
\* the elements of s that lie in S, in the order of s
SeqFilterIn(s, S) ==
    IF s = <<>> THEN <<>>
    ELSE IF Head(s) \in S THEN <<Head(s)>> \o SeqFilterIn(Tail(s), S)
    ELSE SeqFilterIn(Tail(s), S)

\* Iterating a HashMap/HashSet with key set K: the keys in this run's order
HashIter(order, K) == SeqFilterIn(order, K)

RECURSIVE InsertSorted(_, _, _)
\* insert x into the sorted sequence s after every element not greater
\* than it (stable); less[<<a, b>>] is the strict order
InsertSorted(x, s, less) ==
    IF s = <<>> THEN <<x>>
    ELSE IF less[<<x, Head(s)>>] THEN <<x>> \o s
    ELSE <<Head(s)>> \o InsertSorted(x, Tail(s), less)

RECURSIVE SortBy(_, _)
\* slice::sort_by (stable)
SortBy(s, less) ==
    IF s = <<>> THEN <<>>
    ELSE InsertSorted(s[Len(s)], SortBy(SubSeq(s, 1, Len(s) - 1), less), less)

\* slice::sort on a Vec of ids (or of other integers)
SortIds(s) == SortBy(s, [p \in Range(s) \X Range(s) |-> p[1] < p[2]])

RECURSIVE Dedup(_)
\* Vec::dedup: removes consecutive repeated elements
Dedup(s) ==
    IF Len(s) <= 1 THEN s
    ELSE IF s[1] = s[2] THEN Dedup(Tail(s))
    ELSE <<s[1]>> \o Dedup(Tail(s))

SetMax(S) == CHOOSE m \in S : \A x \in S : x <= m

----------------------------------------------------------------------------
(* layout.rs: assign_layers                                                *)

NodeIds(g) == DOMAIN g.nodes

RECURSIVE CountInDegrees(_, _)
\* "Count in-degrees": *in_degree.entry(edge.to).or_insert(0) += 1
CountInDegrees(deg, edges) ==
    IF edges = <<>> THEN deg
    ELSE LET to == Head(edges).to
             d1 == IF to \in DOMAIN deg
                   THEN [deg EXCEPT ![to] = @ + 1]
                   ELSE [i \in DOMAIN deg \cup {to} |->
                            IF i = to THEN 1 ELSE deg[i]]
         IN CountInDegrees(d1, Tail(edges))

\* first_from_idx.entry(edge.from).or_insert(i): index (0-based) of the
\* first edge that has the id as its source
FirstFromIdx(g) ==
    [id \in {g.edges[i].from : i \in 1..Len(g.edges)} |->
        (CHOOSE i \in 1..Len(g.edges) :
            /\ g.edges[i].from = id
            /\ \A j \in 1..(i - 1) : g.edges[j].from # id) - 1]

\* zero_in: ids of in-degree 0, collected in map order and then sorted
ZeroIn(deg, order) ==
    SortIds(HashIter(order, {id \in DOMAIN deg : deg[id] = 0}))

\* state of assign_layers when its outer loop is entered
KahnInit(g, order) ==
    LET in_degree == CountInDegrees([id \in NodeIds(g) |-> 0], g.edges)
    IN [node_layers     |-> [id \in NodeIds(g) |-> 0],
        in_degree       |-> in_degree,
        processed       |-> {},
        queue           |-> ZeroIn(in_degree, order),
        all_cycle_nodes |-> {},
        stalls          |-> <<>>,   \* history: the stuck set of each stall
        forced          |-> <<>>]   \* history: the node forced at each stall

RECURSIVE EdgeTargets(_, _, _)
\* edges.iter().filter(|e| e.from == u && !processed.contains(&e.to))
\*              .map(|e| e.to.clone()).collect()
EdgeTargets(edges, u, processed) ==
    IF edges = <<>> THEN <<>>
    ELSE IF Head(edges).from = u /\ Head(edges).to \notin processed
    THEN <<Head(edges).to>> \o EdgeTargets(Tail(edges), u, processed)
    ELSE EdgeTargets(Tail(edges), u, processed)

\* neighbors of u: targets of u's edges not yet processed, sorted, deduped
Neighbors(g, u, processed) ==
    Dedup(SortIds(EdgeTargets(g.edges, u, processed)))

LayerOf(node_layers, id) ==
    IF id \in DOMAIN node_layers THEN node_layers[id] ELSE 0

RECURSIVE RelaxNeighbors(_, _, _)
\* the "for v in &neighbors" loop of one dequeued node u
RelaxNeighbors(k, u, neighbors) ==
    IF neighbors = <<>> THEN k
    ELSE LET v == Head(neighbors)
             u_layer == LayerOf(k.node_layers, u)
             v_layer == Max2(LayerOf(k.node_layers, v), u_layer + 1)
             nl == [i \in DOMAIN k.node_layers \cup {v} |->
                        IF i = v THEN v_layer ELSE k.node_layers[i]]
             hasDeg == v \in DOMAIN k.in_degree
             deg == IF hasDeg THEN SatSub(k.in_degree[v], 1) ELSE 0
             k1 == [k EXCEPT
                      !.node_layers = nl,
                      !.in_degree = IF hasDeg THEN [@ EXCEPT ![v] = deg] ELSE @,
                      !.queue = IF hasDeg /\ deg = 0 THEN Append(@, v) ELSE @]
         IN RelaxNeighbors(k1, u, Tail(neighbors))

\* one iteration of "while let Some(u) = queue.pop_front()"
KahnDequeue(g, k) ==
    LET u == Head(k.queue)
        k0 == [k EXCEPT !.queue = Tail(@)]
    IN IF u \in k.processed THEN k0
       ELSE LET k1 == [k0 EXCEPT !.processed = @ \cup {u}]
            IN RelaxNeighbors(k1, u, Neighbors(g, u, k1.processed))

\* stuck: keys of in_degree not yet processed, in map order
Stuck(k, order) == HashIter(order, DOMAIN k.in_degree \ k.processed)

\* stuck nodes that have an outgoing edge to a stuck node
CycleParticipants(g, stuck) ==
    {n \in Range(stuck) :
        \E i \in 1..Len(g.edges) :
            g.edges[i].from = n /\ g.edges[i].to \in Range(stuck)}

FromKey(g, id) ==
    IF id \in DOMAIN FirstFromIdx(g) THEN FirstFromIdx(g)[id] ELSE UsizeMax

\* the stuck list left as the map iteration produced it
StuckUnsorted(g, stuck) == stuck

\* stuck.sort_by(|a, b| fa.cmp(&fb).then(a.cmp(b)))
StuckSorted(g, stuck) ==
    SortBy(stuck, [p \in Range(stuck) \X Range(stuck) |->
                      \/ FromKey(g, p[1]) < FromKey(g, p[2])
                      \/ FromKey(g, p[1]) = FromKey(g, p[2]) /\ p[1] < p[2]])

\* the body of the outer loop after the queue ran empty with nodes left
KahnStall(g, k, order) ==
    LET stuck == Stuck(k, order)
        sorted == StuckSorted(g, stuck)
        k1 == [k EXCEPT !.all_cycle_nodes = @ \cup CycleParticipants(g, stuck),
                        !.stalls = Append(@, Range(stuck))]
    IN IF sorted = <<>> THEN k1
       ELSE [k1 EXCEPT !.in_degree = [@ EXCEPT ![sorted[1]] = 0],
                       !.queue = Append(@, sorted[1]),
                       !.forced = Append(@, sorted[1])]

\* "if processed.len() >= total { break; }"
KahnExit(g, k) ==
    k.queue = <<>> /\ Cardinality(k.processed) >= Cardinality(NodeIds(g))

\* the warning pushed after the loop, if any
CycleWarnings(k, order) ==
    IF k.all_cycle_nodes # {}
    THEN <<[kind |-> "CycleDetected",
            nodes |-> SortIds(HashIter(order, k.all_cycle_nodes))]>>
    ELSE <<>>

RECURSIVE KahnRun(_, _, _)
\* the outer loop of assign_layers run to its break
KahnRun(g, k, order) ==
    IF k.queue # <<>> THEN KahnRun(g, KahnDequeue(g, k), order)
    ELSE IF KahnExit(g, k) THEN k
    ELSE KahnRun(g, KahnStall(g, k, order), order)

\* assign_layers: the layer map it returns and the warnings it pushes
assign_layers(g, order) ==
    LET k == KahnRun(g, KahnInit(g, order), order)
    IN [node_layers |-> k.node_layers, warnings |-> CycleWarnings(k, order)]

----------------------------------------------------------------------------
(* text.rs and the character model                                         *)

\* characters that unicode-width reports as two columns wide (CJK)
WideChars == {"WIDE"}

\* UnicodeWidthChar::width(c).unwrap_or(1)
CharWidth(c) == IF c \in WideChars THEN 2 ELSE 1

RECURSIVE display_width(_)
\* text.rs display_width: the sum of the characters' column widths
display_width(text) ==
    IF text = <<>> THEN 0 ELSE CharWidth(Head(text)) + display_width(Tail(text))

\* str::chars().count()
CharCount(text) == Len(text)

----------------------------------------------------------------------------
(* layout.rs: sizes, gaps, coordinates, subgraph bounds                    *)

MIN_NODE_WIDTH == 5
NODE_HEIGHT == 3
MIN_GAP == 2
SUBGRAPH_PADDING == 2

IsHorizontal(direction) == direction \in {"LR", "RL"}

\* constraint_abbrev(c).len(): "[PK]" and the like, or "[" + other + "]"
ConstraintAbbrevLen(c) ==
    IF c \in {<<"primary_key">>, <<"foreign_key">>, <<"unique">>, <<"not_null">>}
    THEN 4 ELSE 2 + Len(c)

format_field_width(field) ==
    CharCount(field.name)
    + (IF field.type_info # <<>> THEN 2 + CharCount(field.type_info[1]) ELSE 0)
    + (IF field.constraint # <<>>
       THEN 1 + ConstraintAbbrevLen(field.constraint[1]) ELSE 0)

RECURSIVE WidenForFields(_, _, _)
\* "for field in &node.fields": node.width = max(width, field_len + 2 + pad)
WidenForFields(width, fields, text_padding) ==
    IF fields = <<>> THEN width
    ELSE WidenForFields(Max2(width, format_field_width(Head(fields)) + 2 + text_padding),
                        Tail(fields), text_padding)

\* step 1 of compute_layout_with_options, for one node
SizedNode(node, opts) ==
    LET text_padding == opts.border_padding * 2
        w0 == Max2(CharCount(node.label) + text_padding, MIN_NODE_WIDTH)
        isTable == node.shape = "Table" /\ node.fields # <<>>
    IN [node EXCEPT
          !.width = IF isTable THEN WidenForFields(w0, node.fields, text_padding)
                    ELSE w0,
          !.height = IF isTable THEN 3 + Len(node.fields)
                     ELSE IF node.shape = "Cylinder" THEN 5 ELSE NODE_HEIGHT]

\* max_layer: the largest value of the layer map (0 for an empty map)
MaxLayer(layers) ==
    IF DOMAIN layers = {} THEN 0 ELSE SetMax({layers[id] : id \in DOMAIN layers})

\* layers_map[l] after "nodes.sort()"
LayerMembers(layers, l, order) ==
    SortIds(HashIter(order, {id \in DOMAIN layers : layers[id] = l}))

\* the members of a layer that are nodes of the graph
\* (the "if let Some(node) = graph.nodes.get(id)" filters)
LayerNodes(nodes, layers, l, order) ==
    SeqFilterIn(LayerMembers(layers, l, order), DOMAIN nodes)

RECURSIVE SeqSum(_)
SeqSum(s) == IF s = <<>> THEN 0 ELSE Head(s) + SeqSum(Tail(s))

SeqMaxOr0(s) == IF s = <<>> THEN 0 ELSE SetMax(Range(s))

\* calculate_gaps without the floor of MIN_GAP under the shrunken gap
calculate_gapsUnfloored(nodes, direction, layers, opts, order) ==
    LET h_gap == opts.padding_x
        v_gap == opts.padding_y
        max_layer == MaxLayer(layers)
        layer_max_width(l) ==
            LET ms == LayerNodes(nodes, layers, l, order)
            IN SeqMaxOr0([i \in 1..Len(ms) |-> nodes[ms[i]].width])
        total_width ==
            SeqSum([i \in 1..(max_layer + 1) |-> layer_max_width(i - 1)])
            + max_layer * h_gap
    IN IF opts.max_width = <<>> THEN <<h_gap, v_gap>>
       ELSE IF IsHorizontal(direction)
               /\ total_width > opts.max_width[1] /\ max_layer > 0
       THEN LET node_width == total_width - max_layer * h_gap
                available_for_gaps == SatSub(opts.max_width[1], node_width)
            IN <<available_for_gaps \div max_layer, v_gap>>
       ELSE <<h_gap, v_gap>>

calculate_gaps(nodes, direction, layers, opts, order) ==
    LET h_gap == opts.padding_x
        v_gap == opts.padding_y
        max_layer == MaxLayer(layers)
        layer_max_width(l) ==
            LET ms == LayerNodes(nodes, layers, l, order)
            IN SeqMaxOr0([i \in 1..Len(ms) |-> nodes[ms[i]].width])
        total_width ==
            SeqSum([i \in 1..(max_layer + 1) |-> layer_max_width(i - 1)])
            + max_layer * h_gap
    IN IF opts.max_width = <<>> THEN <<h_gap, v_gap>>
       ELSE IF IsHorizontal(direction)
               /\ total_width > opts.max_width[1] /\ max_layer > 0
       THEN LET node_width == total_width - max_layer * h_gap
                available_for_gaps == SatSub(opts.max_width[1], node_width)
            IN <<Max2(available_for_gaps \div max_layer, MIN_GAP), v_gap>>
       ELSE <<h_gap, v_gap>>

\* layer_widths / layer_heights of assign_coordinates_with_gaps
LayerDims(nodes, direction, layers, l, h_gap, v_gap, order) ==
    LET ms == LayerNodes(nodes, layers, l, order)
        max_w == SeqMaxOr0([i \in 1..Len(ms) |-> nodes[ms[i]].width])
        max_h == SeqMaxOr0([i \in 1..Len(ms) |-> nodes[ms[i]].height])
        total_w == SeqSum([i \in 1..Len(ms) |-> nodes[ms[i]].width + h_gap])
        total_h == SeqSum([i \in 1..Len(ms) |-> nodes[ms[i]].height + v_gap])
    IN IF IsHorizontal(direction)
       THEN [w |-> max_w, h |-> SatSub(total_h, v_gap)]
       ELSE [w |-> SatSub(total_w, h_gap), h |-> max_h]

\* the "for id in nodes_in_layer" loop without "start_y += node.height + v_gap":
\* every member of the layer at the same place
StackLayerUnstacked(nodes, ms, horizontal, cur, start, gap) ==
    [id \in DOMAIN nodes |->
        IF id \in Range(ms)
        THEN IF horizontal THEN [nodes[id] EXCEPT !.x = cur, !.y = start]
                           ELSE [nodes[id] EXCEPT !.x = start, !.y = cur]
        ELSE nodes[id]]

RECURSIVE StackLayer(_, _, _, _, _, _)
\* the "for id in nodes_in_layer" loop: place the members of one layer
\* at main-axis position cur, stacking them from start along the other axis
StackLayer(nodes, ms, horizontal, cur, start, gap) ==
    IF ms = <<>> THEN nodes
    ELSE LET id == Head(ms)
             placed == IF horizontal
                       THEN [nodes EXCEPT ![id].x = cur, ![id].y = start]
                       ELSE [nodes EXCEPT ![id].x = start, ![id].y = cur]
             next == start + (IF horizontal THEN nodes[id].height
                                           ELSE nodes[id].width) + gap
         IN StackLayer(placed, Tail(ms), horizontal, cur, next, gap)

RECURSIVE PlaceLayers(_, _, _, _, _, _, _, _, _)
\* the "for l in 0..=max_layer" loop of assign_coordinates_with_gaps
PlaceLayers(nodes, direction, layers, l, cur, h_gap, v_gap, order, dims) ==
    LET max_layer == MaxLayer(layers)
    IN IF l > max_layer THEN nodes
       ELSE LET layer_idx == IF direction \in {"RL", "BT"}
                             THEN max_layer - l ELSE l
                ms == LayerNodes(nodes, layers, layer_idx, order)
                horizontal == IsHorizontal(direction)
                max_total == SetMax({IF horizontal THEN dims[i].h ELSE dims[i].w :
                                        i \in DOMAIN dims})
                mine == IF horizontal THEN dims[layer_idx].h ELSE dims[layer_idx].w
                start == SatSub(max_total, mine) \div 2
                placed == StackLayer(nodes, ms, horizontal, cur, start,
                                     IF horizontal THEN v_gap ELSE h_gap)
                step == IF horizontal THEN dims[layer_idx].w + h_gap
                                      ELSE dims[layer_idx].h + v_gap
            IN PlaceLayers(placed, direction, layers, l + 1, cur + step,
                           h_gap, v_gap, order, dims)

\* assign_coordinates_with_gaps with the layers always placed in increasing
\* order, as for LR and TB
assign_coordinates_unmirrored(nodes, direction, layers, h_gap, v_gap, order) ==
    LET forward == IF IsHorizontal(direction) THEN "LR" ELSE "TB"
        dims == [l \in 0..MaxLayer(layers) |->
                    LayerDims(nodes, forward, layers, l, h_gap, v_gap, order)]
    IN PlaceLayers(nodes, forward, layers, 0, 0, h_gap, v_gap, order, dims)

assign_coordinates_with_gaps(nodes, direction, layers, h_gap, v_gap, order) ==
    LET dims == [l \in 0..MaxLayer(layers) |->
                    LayerDims(nodes, direction, layers, l, h_gap, v_gap, order)]
    IN PlaceLayers(nodes, direction, layers, 0, 0, h_gap, v_gap, order, dims)

SetMin(S) == CHOOSE m \in S : \A x \in S : m <= x

\* the boxes a subgraph must enclose: its member nodes that exist and its
\* child subgraphs that have a non-empty box
EnclosedBoxes(sgs, nodes, i) ==
    {[x |-> nodes[id].x, y |-> nodes[id].y,
      width |-> nodes[id].width, height |-> nodes[id].height] :
        id \in Range(sgs[i].nodes) \cap DOMAIN nodes}
    \cup
    {[x |-> sgs[j].x, y |-> sgs[j].y,
      width |-> sgs[j].width, height |-> sgs[j].height] :
        j \in {c \in 1..Len(sgs) : /\ sgs[c].parent = Some(sgs[i].id)
                                   /\ sgs[c].width > 0 /\ sgs[c].height > 0}}

\* "Compute bounds from member nodes" .. "if min_x != usize::MAX {..}"
BoundedSubgraph(sgs, nodes, i) ==
    LET boxes == EnclosedBoxes(sgs, nodes, i)
        min_x == SetMin({b.x : b \in boxes} \cup {UsizeMax})
        min_y == SetMin({b.y : b \in boxes} \cup {UsizeMax})
        max_x == SetMax({b.x + b.width : b \in boxes} \cup {0})
        max_y == SetMax({b.y + b.height : b \in boxes} \cup {0})
    IN IF min_x # UsizeMax
       THEN [sgs[i] EXCEPT
               !.x = SatSub(min_x, SUBGRAPH_PADDING),
               !.y = SatSub(min_y, SUBGRAPH_PADDING + 1),
               !.width = (max_x - min_x) + SUBGRAPH_PADDING * 2,
               !.height = (max_y - min_y) + SUBGRAPH_PADDING * 2 + 1]
       ELSE sgs[i]

\* state of compute_subgraph_bounds: the subgraphs, the processed id set,
\* and (history) the indices in the order they were processed
\* the inner loop's body without the test of the children
SubgraphVisitEager(b, nodes, i) ==
    IF b.sgs[i].id \in b.processed
    THEN b
    ELSE [sgs |-> [b.sgs EXCEPT ![i] = BoundedSubgraph(b.sgs, nodes, i)],
          processed |-> b.processed \cup {b.sgs[i].id},
          done_order |-> Append(b.done_order, i),
          passes |-> b.passes]

\* the body of the inner loop "for i in 0..sg_count", for index i
SubgraphVisit(b, nodes, i) ==
    LET sg_id == b.sgs[i].id
        all_children_done ==
            \A j \in 1..Len(b.sgs) :
                b.sgs[j].parent = Some(sg_id) => b.sgs[j].id \in b.processed
    IN IF sg_id \in b.processed \/ ~all_children_done
       THEN b
       ELSE [sgs |-> [b.sgs EXCEPT ![i] = BoundedSubgraph(b.sgs, nodes, i)],
             processed |-> b.processed \cup {sg_id},
             done_order |-> Append(b.done_order, i),
             passes |-> b.passes]

RECURSIVE SubgraphPass(_, _, _)
\* one run of the inner loop "for i in 0..sg_count", from index i on
SubgraphPass(b, nodes, i) ==
    IF i > Len(b.sgs) THEN b
    ELSE SubgraphPass(SubgraphVisit(b, nodes, i), nodes, i + 1)

RECURSIVE SubgraphPasses(_, _, _)
\* "for _ in 0..sg_count + 1 { .. if processed.len() == sg_count { break } }"
SubgraphPasses(b, nodes, pass) ==
    IF pass > Len(b.sgs) + 1 THEN b
    ELSE LET b1 == [SubgraphPass(b, nodes, 1) EXCEPT !.passes = @ + 1]
         IN IF Cardinality(b1.processed) = Len(b1.sgs) THEN b1
            ELSE SubgraphPasses(b1, nodes, pass + 1)

SubgraphBoundsRun(sgs, nodes) ==
    SubgraphPasses([sgs |-> sgs, processed |-> {}, done_order |-> <<>>,
                    passes |-> 0], nodes, 1)

compute_subgraph_bounds(sgs, nodes) == SubgraphBoundsRun(sgs, nodes).sgs

\* compute_layout_with_options breaking cycles as layered layouts often do:
\* an edge that runs from a later layer to an earlier one is stored reversed
compute_layout_reversing(g, opts, order) ==
    LET sized == [id \in NodeIds(g) |-> SizedNode(g.nodes[id], opts)]
        g1 == [g EXCEPT !.nodes = sized]
        al == assign_layers(g1, order)
        gaps == calculate_gaps(sized, g.direction, al.node_layers, opts, order)
        placed == assign_coordinates_with_gaps(sized, g.direction, al.node_layers,
                                               gaps[1], gaps[2], order)
        back(e) == /\ e.from \in DOMAIN al.node_layers
                   /\ e.to \in DOMAIN al.node_layers
                   /\ al.node_layers[e.from] > al.node_layers[e.to]
    IN [graph |-> [g1 EXCEPT !.nodes = placed,
                             !.edges = [i \in DOMAIN g.edges |->
                                          IF back(g.edges[i])
                                          THEN [g.edges[i] EXCEPT !.from = g.edges[i].to,
                                                                  !.to = g.edges[i].from]
                                          ELSE g.edges[i]],
                             !.subgraphs = compute_subgraph_bounds(@, placed)],
        warnings |-> al.warnings,
        layers |-> al.node_layers,
        gaps |-> gaps]

\* compute_layout_with_options: the graph as laid out, and the warnings
compute_layout_with_options(g, opts, order) ==
    LET sized == [id \in NodeIds(g) |-> SizedNode(g.nodes[id], opts)]
        g1 == [g EXCEPT !.nodes = sized]
        al == assign_layers(g1, order)
        gaps == calculate_gaps(sized, g.direction, al.node_layers, opts, order)
        placed == assign_coordinates_with_gaps(sized, g.direction, al.node_layers,
                                               gaps[1], gaps[2], order)
    IN [graph |-> [g1 EXCEPT !.nodes = placed,
                             !.subgraphs = compute_subgraph_bounds(@, placed)],
        warnings |-> al.warnings,
        layers |-> al.node_layers,
        gaps |-> gaps]

----------------------------------------------------------------------------
(* renderer/charset.rs                                                     *)

\* a Unicode glyph is written as the token "U+" followed by its code point
UNICODE_CHARS ==
    [tl |-> "U+250C", tr |-> "U+2510", bl |-> "U+2514", br |-> "U+2518",
     h |-> "U+2500", v |-> "U+2502",
     arr_r |-> "U+25B6", arr_l |-> "U+25C0", arr_d |-> "U+25BC", arr_u |-> "U+25B2",
     arr_dr |-> "U+25E2", arr_dl |-> "U+25E3", arr_ur |-> "U+25E5", arr_ul |-> "U+25E4",
     rtl |-> "U+256D", rtr |-> "U+256E", rbl |-> "U+2570", rbr |-> "U+256F",
     ml |-> "U+251C", mr |-> "U+2524",
     dh |-> "U+2550", dv |-> "U+2551",
     dtl |-> "U+2554", dtr |-> "U+2557", dbl |-> "U+255A", dbr |-> "U+255D",
     cross |-> "U+253C", t_up |-> "U+2534", t_down |-> "U+252C"]

ASCII_CHARS ==
    [tl |-> "+", tr |-> "+", bl |-> "+", br |-> "+",
     h |-> "-", v |-> "|",
     arr_r |-> ">", arr_l |-> "<", arr_d |-> "v", arr_u |-> "^",
     arr_dr |-> "backslash", arr_dl |-> "/", arr_ur |-> "/", arr_ul |-> "backslash",
     rtl |-> "+", rtr |-> "+", rbl |-> "+", rbr |-> "+",
     ml |-> "+", mr |-> "+",
     dh |-> "=", dv |-> "#",
     dtl |-> "#", dtr |-> "#", dbl |-> "#", dbr |-> "#",
     cross |-> "+", t_up |-> "+", t_down |-> "+"]

\* the '…' that marks a truncated line, and the '·' of dotted edges
ELLIPSIS == "U+2026"
MIDDLE_DOT == "U+00B7"

----------------------------------------------------------------------------
(* grid.rs: the character grid                                             *)

NoFlags == [up |-> FALSE, down |-> FALSE, left |-> FALSE, right |-> FALSE]

\* cells[y][x], protected[y][x] and line_flags[y][x] are kept together,
\* one record per cell
EmptyCell == [c |-> " ", protected |-> FALSE, line_flags |-> NoFlags]

\* Grid::new: all spaces, nothing protected, no line flags
GridNew(width, height) ==
    [width |-> width, height |-> height,
     cells |-> [y \in 0..(height - 1) |-> [x \in 0..(width - 1) |-> EmptyCell]]]

\* the bounds test that every Grid method starts with
InGrid(grid, x, y) == x >= 0 /\ y >= 0 /\ x < grid.width /\ y < grid.height

\* Grid::set, on a cell inside the grid
CellSet(cell, c) == [cell EXCEPT !.c = c]

\* Grid::mark_protected, on a cell inside the grid
CellMarkProtected(cell) == [cell EXCEPT !.protected = TRUE]

\* a set_if_empty that ignores the protected flag
CellSetIfEmptyUnguarded(cell, c) == [cell EXCEPT !.c = c]

\* Grid::set_if_empty, on a cell inside the grid
CellSetIfEmpty(cell, c) == IF ~cell.protected THEN [cell EXCEPT !.c = c] ELSE cell

\* set_line_with_merge that forgets the line flags the cell carried
CellSetLineForgetful(cell, c, is_horizontal, cross) ==
    IF cell.protected THEN cell
    ELSE [cell EXCEPT
            !.line_flags = IF is_horizontal
                           THEN [NoFlags EXCEPT !.left = TRUE, !.right = TRUE]
                           ELSE [NoFlags EXCEPT !.up = TRUE, !.down = TRUE],
            !.c = c]

\* Grid::set_line_with_merge, on a cell inside the grid
CellSetLineWithMerge(cell, c, is_horizontal, cross) ==
    IF cell.protected THEN cell
    ELSE LET f0 == cell.line_flags
             f1 == IF is_horizontal
                   THEN [f0 EXCEPT !.left = TRUE, !.right = TRUE]
                   ELSE [f0 EXCEPT !.up = TRUE, !.down = TRUE]
             has_h == f1.left \/ f1.right
             has_v == f1.up \/ f1.down
         IN [cell EXCEPT !.line_flags = f1,
                         !.c = IF has_h /\ has_v THEN cross ELSE c]

\* A drawing routine is modelled by the sequence of grid calls it makes
OpSet(x, y, c) == [op |-> "set", x |-> x, y |-> y, c |-> c]
OpSetIfEmpty(x, y, c) == [op |-> "set_if_empty", x |-> x, y |-> y, c |-> c]
OpProtect(x, y) == [op |-> "mark_protected", x |-> x, y |-> y, c |-> " "]
OpLine(x, y, c, is_horizontal, cross) ==
    [op |-> IF is_horizontal THEN "line_h" ELSE "line_v",
     x |-> x, y |-> y, c |-> c, cross |-> cross]

\* one call, on the cell it addresses
ApplyOp(cell, o) ==
    CASE o.op = "set" -> CellSet(cell, o.c)
      [] o.op = "set_if_empty" -> CellSetIfEmpty(cell, o.c)
      [] o.op = "mark_protected" -> CellMarkProtected(cell)
      [] o.op = "line_h" -> CellSetLineWithMerge(cell, o.c, TRUE, o.cross)
      [] o.op = "line_v" -> CellSetLineWithMerge(cell, o.c, FALSE, o.cross)

RECURSIVE ApplyCellOps(_, _)
\* the calls that address one cell, in order
ApplyCellOps(cell, ops) ==
    IF ops = <<>> THEN cell ELSE ApplyCellOps(ApplyOp(cell, Head(ops)), Tail(ops))

\* the calls of ops made in order: a call outside the grid does nothing,
\* and a call reads and writes only the cell it addresses, so each cell
\* sees the calls that address it, in order
ApplyOps(grid, ops) ==
    LET inside == SelectSeq(ops, LAMBDA o : InGrid(grid, o.x, o.y))
        rows == {inside[i].y : i \in DOMAIN inside}
        NewRow(y) ==
            LET row_ops == SelectSeq(inside, LAMBDA o : o.y = y)
                xs == {row_ops[i].x : i \in DOMAIN row_ops}
            IN [x \in 0..(grid.width - 1) |->
                  IF x \in xs
                  THEN ApplyCellOps(grid.cells[y][x], SelectSeq(row_ops, LAMBDA o : o.x = x))
                  ELSE grid.cells[y][x]]
    IN [grid EXCEPT !.cells =
          [y \in 0..(grid.height - 1) |-> IF y \in rows THEN NewRow(y) ELSE grid.cells[y]]]

RECURSIVE Concat(_)
\* the concatenation of a sequence of sequences
Concat(ss) == IF ss = <<>> THEN <<>> ELSE Head(ss) \o Concat(Tail(ss))

\* "for i in lo..hi": the values lo, lo+1, .., hi-1 (none when hi <= lo)
RangeSeq(lo, hi) == [i \in 1..(hi - lo) |-> lo + i - 1]

RECURSIVE IndexOfLastNonSpace(_, _)
\* the largest index of s in 1..n holding a non-space, or 0
IndexOfLastNonSpace(s, n) ==
    IF n = 0 THEN 0
    ELSE IF s[n] # " " THEN n ELSE IndexOfLastNonSpace(s, n - 1)

\* one row as a String after str::trim_end
RowText(grid, y) ==
    LET row == [i \in 1..grid.width |-> grid.cells[y][i - 1].c]
    IN SubSeq(row, 1, IndexOfLastNonSpace(row, grid.width))

\* impl Display for Grid: the lines of the output, trailing blank rows and
\* trailing spaces removed
GridToLines(grid) ==
    LET nonEmpty == {y \in 0..(grid.height - 1) : RowText(grid, y) # <<>>}
        last_non_empty == IF nonEmpty = {} THEN 0 ELSE SetMax(nonEmpty)
    IN [i \in 1..(last_non_empty + 1) |-> RowText(grid, i - 1)]

----------------------------------------------------------------------------
(* renderer/shapes.rs: a drawing routine yields the grid calls it makes    *)
(* (ops) and the values of its unchecked usize subtractions (subs); a      *)
(* negative value in subs is an underflow                                  *)

Drawn(ops, subs) == [ops |-> ops, subs |-> subs]

\* "for i in lo..hi { body }"
LoopOps(lo, hi, Body(_)) == Concat([k \in 1..(hi - lo) |-> Body(lo + k - 1)])

RECURSIVE SplitLines(_, _)
\* str::split('\n'): cur is the line being collected
SplitLines(text, cur) ==
    IF text = <<>> THEN <<cur>>
    ELSE IF Head(text) = "\n" THEN <<cur>> \o SplitLines(Tail(text), <<>>)
    ELSE SplitLines(Tail(text), Append(cur, Head(text)))

\* draw_text: x advances by the display width of each character
draw_text(x, y, text) ==
    [i \in 1..Len(text) |->
        OpSetIfEmpty(x + display_width(SubSeq(text, 1, i - 1)), y, text[i])]

\* draw_label: the lines of the label centred in the node
draw_label(node) ==
    LET lines == SplitLines(node.label, <<>>)
        block_start_y == node.y + SatSub(node.height, Len(lines)) \div 2
    IN Concat([i \in 1..Len(lines) |->
          draw_text(node.x + SatSub(node.width, display_width(lines[i])) \div 2,
                    block_start_y + (i - 1), lines[i])])

\* the frame shared by most shapes: four corners, the two horizontal
\* borders, the two vertical borders, then the label
FrameOps(node, ctl, ctr, cbl, cbr, top, bottom, left, right) ==
    LET x == node.x
        y == node.y
        width == node.width
        height == node.height
    IN <<OpSetIfEmpty(x, y, ctl), OpSetIfEmpty(x + width - 1, y, ctr),
         OpSetIfEmpty(x, y + height - 1, cbl),
         OpSetIfEmpty(x + width - 1, y + height - 1, cbr)>>
       \o LoopOps(1, width - 1, LAMBDA i :
             <<OpSetIfEmpty(x + i, y, top), OpSetIfEmpty(x + i, y + height - 1, bottom)>>)
       \o LoopOps(1, height - 1, LAMBDA i :
             <<OpSetIfEmpty(x, y + i, left), OpSetIfEmpty(x + width - 1, y + i, right)>>)
       \o draw_label(node)

\* the unchecked subtractions of such a frame
FrameSubs(node) ==
    {node.x + node.width - 1, node.y + node.height - 1,
     node.width - 1, node.height - 1}

draw_rectangle(node, chars) ==
    Drawn(FrameOps(node, chars.tl, chars.tr, chars.bl, chars.br,
                   chars.h, chars.h, chars.v, chars.v), FrameSubs(node))

draw_rounded(node, chars) ==
    Drawn(FrameOps(node, chars.rtl, chars.rtr, chars.rbl, chars.rbr,
                   chars.h, chars.h, chars.v, chars.v), FrameSubs(node))

draw_stadium(node, chars) ==
    Drawn(FrameOps(node, "(", ")", "(", ")", chars.h, chars.h, "(", ")"),
          FrameSubs(node))

draw_circle(node, chars) ==
    LET x == node.x
        y == node.y
        width == node.width
        height == node.height
    IN Drawn(
       <<OpSetIfEmpty(x, y, "("), OpSetIfEmpty(x + width - 1, y, ")"),
         OpSetIfEmpty(x, y + height - 1, "("),
         OpSetIfEmpty(x + width - 1, y + height - 1, ")")>>
       \o LoopOps(1, width - 1, LAMBDA i :
             IF i = 1
             THEN <<OpSetIfEmpty(x + i, y, chars.rtl),
                    OpSetIfEmpty(x + i, y + height - 1, chars.rbl)>>
             ELSE IF i = width - 2
             THEN <<OpSetIfEmpty(x + i, y, chars.rtr),
                    OpSetIfEmpty(x + i, y + height - 1, chars.rbr)>>
             ELSE <<OpSetIfEmpty(x + i, y, chars.h),
                    OpSetIfEmpty(x + i, y + height - 1, chars.h)>>)
       \o LoopOps(1, height - 1, LAMBDA i :
             <<OpSetIfEmpty(x, y + i, "("), OpSetIfEmpty(x + width - 1, y + i, ")")>>)
       \o draw_label(node),
       FrameSubs(node) \cup (IF width - 1 > 2 THEN {width - 2} ELSE {}))

draw_diamond(node, chars) ==
    LET x == node.x
        y == node.y
        width == node.width
        height == node.height
        mid_x == width \div 2
    IN Drawn(
       <<OpSetIfEmpty(x + mid_x, y, "/")>>
       \o (IF mid_x + 1 < width THEN <<OpSetIfEmpty(x + mid_x + 1, y, "backslash")>>
           ELSE <<>>)
       \o <<OpSetIfEmpty(x + mid_x, y + height - 1, "backslash")>>
       \o (IF mid_x + 1 < width THEN <<OpSetIfEmpty(x + mid_x + 1, y + height - 1, "/")>>
           ELSE <<>>)
       \o LoopOps(1, height - 1, LAMBDA i :
             <<OpSetIfEmpty(x, y + i, "<"), OpSetIfEmpty(x + width - 1, y + i, ">")>>)
       \o LoopOps(1, width - 1, LAMBDA i : <<OpSetIfEmpty(x + i, y + 1, chars.h)>>)
       \o draw_label(node),
       {y + height - 1, height - 1, width - 1}
         \cup (IF height - 1 > 1 THEN {x + width - 1} ELSE {}))

draw_cylinder(node, chars) ==
    LET x == node.x
        y == node.y
        width == node.width
        height == node.height
    IN Drawn(
       <<OpSetIfEmpty(x, y, chars.rtl), OpSetIfEmpty(x + width - 1, y, chars.rtr)>>
       \o LoopOps(1, width - 1, LAMBDA i : <<OpSetIfEmpty(x + i, y, chars.h)>>)
       \o <<OpSetIfEmpty(x, y + 1, chars.ml), OpSetIfEmpty(x + width - 1, y + 1, chars.mr)>>
       \o LoopOps(1, width - 1, LAMBDA i : <<OpSetIfEmpty(x + i, y + 1, chars.h)>>)
       \o LoopOps(2, height - 2, LAMBDA i :
             <<OpSetIfEmpty(x, y + i, chars.v), OpSetIfEmpty(x + width - 1, y + i, chars.v)>>)
       \o <<OpSetIfEmpty(x, y + height - 2, chars.ml),
            OpSetIfEmpty(x + width - 1, y + height - 2, chars.mr)>>
       \o LoopOps(1, width - 1, LAMBDA i : <<OpSetIfEmpty(x + i, y + height - 2, chars.h)>>)
       \o <<OpSetIfEmpty(x, y + height - 1, chars.rbl),
            OpSetIfEmpty(x + width - 1, y + height - 1, chars.rbr)>>
       \o LoopOps(1, width - 1, LAMBDA i : <<OpSetIfEmpty(x + i, y + height - 1, chars.h)>>)
       \o draw_label(node),
       FrameSubs(node) \cup {height - 2, y + height - 2})

draw_subroutine(node, chars) ==
    LET x == node.x
        y == node.y
        width == node.width
        height == node.height
    IN Drawn(
       <<OpSetIfEmpty(x, y, chars.tl), OpSetIfEmpty(x + 1, y, chars.tl),
         OpSetIfEmpty(x + width - 1, y, chars.tr), OpSetIfEmpty(x + width - 2, y, chars.tr),
         OpSetIfEmpty(x, y + height - 1, chars.bl), OpSetIfEmpty(x + 1, y + height - 1, chars.bl),
         OpSetIfEmpty(x + width - 1, y + height - 1, chars.br),
         OpSetIfEmpty(x + width - 2, y + height - 1, chars.br)>>
       \o LoopOps(2, width - 2, LAMBDA i :
             <<OpSetIfEmpty(x + i, y, chars.h), OpSetIfEmpty(x + i, y + height - 1, chars.h)>>)
       \o LoopOps(1, height - 1, LAMBDA i :
             <<OpSetIfEmpty(x, y + i, chars.v), OpSetIfEmpty(x + 1, y + i, chars.v),
               OpSetIfEmpty(x + width - 1, y + i, chars.v),
               OpSetIfEmpty(x + width - 2, y + i, chars.v)>>)
       \o draw_label(node),
       {x + width - 1, x + width - 2, y + height - 1, width - 2, height - 1})

draw_hexagon(node, chars) ==
    LET x == node.x
        y == node.y
        width == node.width
        height == node.height
    IN Drawn(
       <<OpSetIfEmpty(x, y, "/"), OpSetIfEmpty(x + width - 1, y, "backslash")>>
       \o LoopOps(1, width - 1, LAMBDA i : <<OpSetIfEmpty(x + i, y, chars.h)>>)
       \o <<OpSetIfEmpty(x, y + height - 1, "backslash"),
            OpSetIfEmpty(x + width - 1, y + height - 1, "/")>>
       \o LoopOps(1, width - 1, LAMBDA i : <<OpSetIfEmpty(x + i, y + height - 1, chars.h)>>)
       \o LoopOps(1, height - 1, LAMBDA i :
             <<OpSetIfEmpty(x, y + i, "<"), OpSetIfEmpty(x + width - 1, y + i, ">")>>)
       \o draw_label(node),
       FrameSubs(node))

draw_parallelogram(node, chars, reverse) ==
    LET side == IF reverse THEN "backslash" ELSE "/"
    IN IF reverse
       THEN Drawn(FrameOps(node, "backslash", chars.tr, chars.bl, "/",
                           chars.h, chars.h, side, side), FrameSubs(node))
       ELSE Drawn(FrameOps(node, chars.tl, "/", "backslash", chars.br,
                           chars.h, chars.h, side, side), FrameSubs(node))

draw_trapezoid(node, chars, reverse) ==
    IF reverse
    THEN Drawn(FrameOps(node, "backslash", "/", chars.bl, chars.br,
                        chars.h, chars.h, "backslash", "/"), FrameSubs(node))
    ELSE Drawn(FrameOps(node, chars.tl, chars.tr, "backslash", "/",
                        chars.h, chars.h, chars.v, chars.v), FrameSubs(node))

RECURSIVE truncate_to_width(_, _, _)
\* truncate_to_width: the longest prefix of s whose display width, added
\* to the width already kept, stays within max_width
truncate_to_width(s, width, max_width) ==
    IF s = <<>> \/ width + CharWidth(Head(s)) > max_width THEN <<>>
    ELSE <<Head(s)>> \o truncate_to_width(Tail(s), width + CharWidth(Head(s)), max_width)

\* format_field_text: "name: type [XX]" cut to max_width columns
format_field_text(field, max_width) ==
    LET typed == field.name
                 \o (IF field.type_info = <<>> THEN <<>>
                     ELSE <<":", " ">> \o field.type_info[1])
        abbrev(c) ==
            CASE c = <<"primary_key">> -> <<" ", "[", "P", "K", "]">>
              [] c = <<"foreign_key">> -> <<" ", "[", "F", "K", "]">>
              [] c = <<"unique">> -> <<" ", "[", "U", "Q", "]">>
              [] c = <<"not_null">> -> <<" ", "[", "N", "N", "]">>
              [] OTHER -> <<" ", "[">> \o c \o <<"]">>
        text == typed \o (IF field.constraint = <<>> THEN <<>>
                          ELSE abbrev(field.constraint[1]))
    IN IF display_width(text) > max_width
       THEN truncate_to_width(text, 0, max_width) ELSE text

draw_table(node, chars) ==
    LET x == node.x
        y == node.y
        width == node.width
        height == node.height
        first_line == Head(SplitLines(node.label, <<>>))
        label_x == x + SatSub(width, display_width(first_line)) \div 2
        bot_y == y + height - 1
    IN IF node.fields = <<>>
       THEN Drawn(FrameOps(node, chars.dtl, chars.dtr, chars.dbl, chars.dbr,
                           chars.dh, chars.dh, chars.dv, chars.dv), FrameSubs(node))
       ELSE Drawn(
          <<OpSetIfEmpty(x, y, chars.dtl), OpSetIfEmpty(x + width - 1, y, chars.dtr)>>
          \o LoopOps(1, width - 1, LAMBDA i : <<OpSetIfEmpty(x + i, y, chars.dh)>>)
          \o <<OpSetIfEmpty(x, y + 1, chars.dv), OpSetIfEmpty(x + width - 1, y + 1, chars.dv)>>
          \o draw_text(label_x, y + 1, first_line)
          \o <<OpSetIfEmpty(x, y + 2, chars.ml), OpSetIfEmpty(x + width - 1, y + 2, chars.mr)>>
          \o LoopOps(1, width - 1, LAMBDA i : <<OpSetIfEmpty(x + i, y + 2, chars.h)>>)
          \o Concat([fi \in 1..Len(node.fields) |->
                <<OpSetIfEmpty(x, y + 3 + (fi - 1), chars.v),
                  OpSetIfEmpty(x + width - 1, y + 3 + (fi - 1), chars.v)>>
                \o draw_text(x + 2, y + 3 + (fi - 1),
                             format_field_text(node.fields[fi], SatSub(width, 4)))])
          \o <<OpSetIfEmpty(x, bot_y, chars.bl), OpSetIfEmpty(x + width - 1, bot_y, chars.br)>>
          \o LoopOps(1, width - 1, LAMBDA i : <<OpSetIfEmpty(x + i, bot_y, chars.h)>>),
          {x + width - 1, width - 1, y + height - 1})

draw_person(node, chars) ==
    LET x == node.x
        y == node.y
        width == node.width
        height == node.height
        mid_x == x + width \div 2
        lines == SplitLines(node.label, <<>>)
        label_start_y == y + 3
    IN Drawn(
       <<OpSetIfEmpty(mid_x, y, "O")>>
       \o (IF y + 1 < y + height
           THEN (IF mid_x > 0 THEN <<OpSetIfEmpty(mid_x - 1, y + 1, "/")>> ELSE <<>>)
                \o <<OpSetIfEmpty(mid_x, y + 1, "|"),
                     OpSetIfEmpty(mid_x + 1, y + 1, "backslash")>>
           ELSE <<>>)
       \o (IF y + 2 < y + height
           THEN (IF mid_x > 0 THEN <<OpSetIfEmpty(mid_x - 1, y + 2, "/")>> ELSE <<>>)
                \o <<OpSetIfEmpty(mid_x + 1, y + 2, "backslash")>>
           ELSE <<>>)
       \o Concat([li \in 1..Len(lines) |->
             IF label_start_y + (li - 1) < y + height
             THEN draw_text(x + SatSub(width, display_width(lines[li])) \div 2,
                            label_start_y + (li - 1), lines[li])
             ELSE <<>>])
       \o FrameOps([node EXCEPT !.label = <<>>], chars.rtl, chars.rtr, chars.rbl,
                   chars.rbr, chars.h, chars.h, chars.v, chars.v),
       FrameSubs(node))

draw_cloud(node, chars) ==
    LET x == node.x
        y == node.y
        width == node.width
        height == node.height
    IN Drawn(
       <<OpSetIfEmpty(x + 1, y, "."), OpSetIfEmpty(x + 2, y, "-")>>
       \o LoopOps(3, SatSub(width, 3), LAMBDA i : <<OpSetIfEmpty(x + i, y, "~")>>)
       \o (IF width > 4 THEN <<OpSetIfEmpty(x + width - 3, y, "-")>> ELSE <<>>)
       \o <<OpSetIfEmpty(x + width - 2, y, "."),
            OpSetIfEmpty(x + 1, y + height - 1, "backquote"),
            OpSetIfEmpty(x + 2, y + height - 1, "~")>>
       \o LoopOps(3, SatSub(width, 3), LAMBDA i : <<OpSetIfEmpty(x + i, y + height - 1, "-")>>)
       \o (IF width > 4 THEN <<OpSetIfEmpty(x + width - 3, y + height - 1, "~")>> ELSE <<>>)
       \o <<OpSetIfEmpty(x + width - 2, y + height - 1, "'")>>
       \o LoopOps(1, height - 1, LAMBDA i :
             <<OpSetIfEmpty(x, y + i, "("), OpSetIfEmpty(x + width - 1, y + i, ")")>>)
       \o draw_label(node),
       {x + width - 2, y + height - 1, height - 1}
         \cup (IF width > 4 THEN {x + width - 3} ELSE {})
         \cup (IF height - 1 > 1 THEN {x + width - 1} ELSE {}))

draw_document(node, chars) ==
    LET x == node.x
        y == node.y
        width == node.width
        height == node.height
    IN Drawn(
       <<OpSetIfEmpty(x, y, chars.tl), OpSetIfEmpty(x + width - 1, y, chars.tr)>>
       \o LoopOps(1, width - 1, LAMBDA i : <<OpSetIfEmpty(x + i, y, chars.h)>>)
       \o LoopOps(1, height - 1, LAMBDA i :
             <<OpSetIfEmpty(x, y + i, chars.v), OpSetIfEmpty(x + width - 1, y + i, chars.v)>>)
       \o <<OpSetIfEmpty(x, y + height - 1, chars.bl),
            OpSetIfEmpty(x + width - 1, y + height - 1, chars.br)>>
       \o LoopOps(1, width - 1, LAMBDA i :
             <<OpSetIfEmpty(x + i, y + height - 1, IF i % 3 = 1 THEN "~" ELSE chars.h)>>)
       \o draw_label(node),
       FrameSubs(node))

\* protect_node_area
protect_node_area(node) ==
    LoopOps(node.y, node.y + node.height, LAMBDA y :
       LoopOps(node.x, node.x + node.width, LAMBDA x : <<OpProtect(x, y)>>))

NodeShapes ==
    {"Rectangle", "Rounded", "Circle", "Diamond", "Cylinder", "Stadium",
     "Subroutine", "Hexagon", "Parallelogram", "ParallelogramAlt", "Trapezoid",
     "TrapezoidAlt", "Table", "Person", "Cloud", "Document"}

\* draw_node: the shape, then the protection of the bounding box
draw_node(node, chars) ==
    LET shape ==
          CASE node.shape = "Rectangle" -> draw_rectangle(node, chars)
            [] node.shape = "Rounded" -> draw_rounded(node, chars)
            [] node.shape = "Circle" -> draw_circle(node, chars)
            [] node.shape = "Diamond" -> draw_diamond(node, chars)
            [] node.shape = "Cylinder" -> draw_cylinder(node, chars)
            [] node.shape = "Stadium" -> draw_stadium(node, chars)
            [] node.shape = "Subroutine" -> draw_subroutine(node, chars)
            [] node.shape = "Hexagon" -> draw_hexagon(node, chars)
            [] node.shape = "Parallelogram" -> draw_parallelogram(node, chars, FALSE)
            [] node.shape = "ParallelogramAlt" -> draw_parallelogram(node, chars, TRUE)
            [] node.shape = "Trapezoid" -> draw_trapezoid(node, chars, FALSE)
            [] node.shape = "TrapezoidAlt" -> draw_trapezoid(node, chars, TRUE)
            [] node.shape = "Table" -> draw_table(node, chars)
            [] node.shape = "Person" -> draw_person(node, chars)
            [] node.shape = "Cloud" -> draw_cloud(node, chars)
            [] node.shape = "Document" -> draw_document(node, chars)
    IN Drawn(shape.ops \o protect_node_area(node), shape.subs)

----------------------------------------------------------------------------
(* renderer/subgraph.rs                                                    *)

draw_subgraph(sg, chars) ==
    LET x == sg.x
        y == sg.y
        width == sg.width
        height == sg.height
        label_w == display_width(sg.label)
        label_x == x + (width - label_w) \div 2
    IN IF width = 0 \/ height = 0 THEN Drawn(<<>>, {})
       ELSE Drawn(
          <<OpSet(x, y, chars.dtl), OpSet(x + width - 1, y, chars.dtr),
            OpSet(x, y + height - 1, chars.dbl),
            OpSet(x + width - 1, y + height - 1, chars.dbr)>>
          \o LoopOps(1, width - 1, LAMBDA i :
                <<OpSet(x + i, y, chars.dh), OpSet(x + i, y + height - 1, chars.dh)>>)
          \o LoopOps(1, height - 1, LAMBDA i :
                <<OpSet(x, y + i, chars.dv), OpSet(x + width - 1, y + i, chars.dv)>>)
          \o (IF sg.label # <<>> /\ width > label_w + 2
              THEN [i \in 1..Len(sg.label) |->
                      OpSet(label_x + display_width(SubSeq(sg.label, 1, i - 1)), y,
                            sg.label[i])]
              ELSE <<>>),
          {x + width - 1, y + height - 1, width - 1, height - 1})

protect_subgraph_borders(sg) ==
    LET x == sg.x
        y == sg.y
        width == sg.width
        height == sg.height
    IN IF width = 0 \/ height = 0 THEN <<>>
       ELSE <<OpProtect(x, y), OpProtect(x + width - 1, y),
              OpProtect(x, y + height - 1), OpProtect(x + width - 1, y + height - 1)>>
            \o LoopOps(1, width - 1, LAMBDA i :
                  <<OpProtect(x + i, y), OpProtect(x + i, y + height - 1)>>)
            \o LoopOps(1, height - 1, LAMBDA i :
                  <<OpProtect(x, y + i), OpProtect(x + width - 1, y + i)>>)

----------------------------------------------------------------------------
(* pathfinding.rs                                                          *)

\* PathGrid::block_rect: the cells it inserts
block_rect(x, y, width, height) ==
    {<<x + dx, y + dy>> : dx \in 0..(width - 1), dy \in 0..(height - 1)}

\* build_path_grid followed by PathGrid::unblock on the four cells beside and
\* on the vertical and horizontal middles of every node's sides, where the
\* edges of the node start and end
build_path_gridUnblocking(g, width, height) ==
    [width |-> width, height |-> height,
     blocked |->
        (UNION {block_rect(g.nodes[id].x, g.nodes[id].y, g.nodes[id].width,
                           g.nodes[id].height) : id \in DOMAIN g.nodes}
         \cup UNION {LET sg == g.subgraphs[i]
                     IN IF sg.width > 0 /\ sg.height > 0
                        THEN block_rect(sg.x, sg.y, sg.width, 1)
                             \cup block_rect(sg.x, sg.y + SatSub(sg.height, 1), sg.width, 1)
                             \cup block_rect(sg.x, sg.y, 1, sg.height)
                             \cup block_rect(sg.x + SatSub(sg.width, 1), sg.y, 1, sg.height)
                        ELSE {} : i \in DOMAIN g.subgraphs})
        \ UNION {LET n == g.nodes[id]
                 IN {<<n.x, n.y + n.height \div 2>>,
                     <<n.x + n.width, n.y + n.height \div 2>>,
                     <<n.x + n.width \div 2, n.y>>,
                     <<n.x + n.width \div 2, n.y + n.height>>} : id \in DOMAIN g.nodes}]

\* build_path_grid: every node rectangle and every subgraph border blocked
build_path_grid(g, width, height) ==
    [width |-> width, height |-> height,
     blocked |->
        UNION {block_rect(g.nodes[id].x, g.nodes[id].y, g.nodes[id].width,
                          g.nodes[id].height) : id \in DOMAIN g.nodes}
        \cup UNION {LET sg == g.subgraphs[i]
                    IN IF sg.width > 0 /\ sg.height > 0
                       THEN block_rect(sg.x, sg.y, sg.width, 1)
                            \cup block_rect(sg.x, sg.y + SatSub(sg.height, 1), sg.width, 1)
                            \cup block_rect(sg.x, sg.y, 1, sg.height)
                            \cup block_rect(sg.x + SatSub(sg.width, 1), sg.y, 1, sg.height)
                       ELSE {} : i \in DOMAIN g.subgraphs}]

\* an is_valid that ignores the blocked set
is_validUnblocked(path_grid, pos) ==
    pos[1] < path_grid.width /\ pos[2] < path_grid.height

\* PathGrid::is_valid
is_valid(path_grid, pos) ==
    /\ pos[1] < path_grid.width
    /\ pos[2] < path_grid.height
    /\ pos \notin path_grid.blocked

\* find_path's first test: it returns None at once unless both ends are valid
FindPathSearches(path_grid, start, goal) ==
    is_valid(path_grid, start) /\ is_valid(path_grid, goal)

\* PathGrid::neighbors without the upward move
neighborsNoUp(path_grid, pos) ==
    LET x == pos[1]
        y == pos[2]
        Step(inside, p) == IF inside /\ is_valid(path_grid, p) THEN <<p>> ELSE <<>>
    IN Step(x + 1 < path_grid.width, <<x + 1, y>>)
       \o Step(x > 0, <<x - 1, y>>)
       \o Step(y + 1 < path_grid.height, <<x, y + 1>>)

\* PathGrid::neighbors: right, left, down, up, each when inside and valid
neighbors(path_grid, pos) ==
    LET x == pos[1]
        y == pos[2]
        Step(inside, p) == IF inside /\ is_valid(path_grid, p) THEN <<p>> ELSE <<>>
    IN Step(x + 1 < path_grid.width, <<x + 1, y>>)
       \o Step(x > 0, <<x - 1, y>>)
       \o Step(y + 1 < path_grid.height, <<x, y + 1>>)
       \o Step(y > 0, <<x, y - 1>>)

\* a heuristic that is always 0 for cells left of the goal and
\* overestimates elsewhere
heuristicSkewed(from, to) ==
    IF from[1] < to[1] THEN 0 ELSE 4 * (from[1] - to[1] + 1)

\* PathGrid::heuristic: the Manhattan distance
heuristic(from, to) ==
    LET dx == IF from[1] > to[1] THEN from[1] - to[1] ELSE to[1] - from[1]
        dy == IF from[2] > to[2] THEN from[2] - to[2] ELSE to[2] - from[2]
    IN dx + dy

AStarNode(pos, f_score) == [pos |-> pos, f_score |-> f_score]

\* g_score.get(&p).unwrap_or(&usize::MAX)
GScore(g_score, p) == IF p \in DOMAIN g_score THEN g_score[p] ELSE UsizeMax

\* find_path, lines 132-144: None at once, or the locals before the loop
SearchInit(path_grid, start, goal) ==
    IF ~FindPathSearches(path_grid, start, goal)
    THEN [stage |-> "returned", path_grid |-> path_grid, start |-> start, goal |-> goal,
          result |-> None]
    ELSE [stage |-> "loop", path_grid |-> path_grid, start |-> start, goal |-> goal,
          open_set |-> {AStarNode(start, heuristic(start, goal))},
          came_from |-> <<>>,
          g_score |-> (start :> 0)]

\* BinaryHeap::pop: an entry of least f_score; which one among equals is
\* left to the heap
PopCandidates(open_set) ==
    {n \in open_set : \A m \in open_set : n.f_score <= m.f_score}

RECURSIVE PathBack(_, _)
\* the walk over came_from, from pos back to a cell without entry
PathBack(came_from, pos) ==
    IF pos \in DOMAIN came_from
    THEN <<pos>> \o PathBack(came_from, came_from[pos])
    ELSE <<pos>>

\* Vec::reverse
Reverse(s) == [i \in 1..Len(s) |-> s[Len(s) + 1 - i]]

\* find_path, lines 147-156: the goal was popped
SearchFound(s, current) ==
    [stage |-> "returned", path_grid |-> s.path_grid, start |-> s.start, goal |-> s.goal,
     result |-> Some(Reverse(PathBack(s.came_from, current.pos)))]

\* find_path, lines 163-172: one neighbor of the popped cell
RelaxNeighbor(s, current_pos, current_g, neighbor) ==
    LET tentative_g == current_g + 1
    IN IF tentative_g < GScore(s.g_score, neighbor)
       THEN [s EXCEPT
               !.came_from = (neighbor :> current_pos) @@ @,
               !.g_score = (neighbor :> tentative_g) @@ @,
               !.open_set = @ \cup {AStarNode(neighbor,
                                              tentative_g + heuristic(neighbor, s.goal))}]
       ELSE s

RECURSIVE RelaxAll(_, _, _, _)
\* "for neighbor in self.neighbors(current.pos)"
RelaxAll(s, current_pos, current_g, ns) ==
    IF ns = <<>> THEN s
    ELSE RelaxAll(RelaxNeighbor(s, current_pos, current_g, Head(ns)),
                  current_pos, current_g, Tail(ns))

\* find_path, lines 158-173: a popped cell that is not the goal
SearchExpand(s, current) ==
    RelaxAll([s EXCEPT !.open_set = @ \ {current}],
             current.pos, GScore(s.g_score, current.pos),
             neighbors(s.path_grid, current.pos))

\* find_path, line 176: the heap is empty
SearchExhausted(s) ==
    [stage |-> "returned", path_grid |-> s.path_grid, start |-> s.start, goal |-> s.goal,
     result |-> None]

----------------------------------------------------------------------------
(* renderer/edges.rs                                                       *)

EdgeStyles == {"Arrow", "Line", "DottedArrow", "DottedLine", "ThickArrow", "ThickLine"}

\* get_edge_chars: <<h_char, v_char>>
get_edge_chars(style, chars, ascii) ==
    CASE style \in {"Arrow", "Line"} -> <<chars.h, chars.v>>
      [] style \in {"DottedArrow", "DottedLine"} ->
            IF ascii THEN <<".", ":">> ELSE <<MIDDLE_DOT, MIDDLE_DOT>>
      [] style \in {"ThickArrow", "ThickLine"} -> <<chars.dh, chars.dv>>

style_has_arrow(style) == style \in {"Arrow", "DottedArrow", "ThickArrow"}

RECURSIVE Digits(_)
\* the decimal digits of n, as format!("{}", n) writes them
Digits(n) ==
    LET d == <<"0", "1", "2", "3", "4", "5", "6", "7", "8", "9">>[(n % 10) + 1]
    IN IF n < 10 THEN <<d>> ELSE Append(Digits(n \div 10), d)

\* markers numbered from 2
MarkerTextFromTwo(n) == <<"[">> \o Digits(n + 1) \o <<"]">>

\* format!("[{}]", next_marker)
MarkerText(n) == <<"[">> \o Digits(n) \o <<"]">>

DroppedLabel(marker, label, from, to) ==
    [marker |-> marker, label |-> label, from |-> from, to |-> to]

\* "for (i, c) in text.chars().enumerate() { grid.set_if_empty(x + i, y, c) }"
EnumOps(x, y, text) == [i \in 1..Len(text) |-> OpSetIfEmpty(x + (i - 1), y, text[i])]

\* the cells such a loop addresses, with the character meant for each
EnumCells(x, y, text) == [i \in 1..Len(text) |-> <<x + (i - 1), y, text[i]>>]

\* What drawing one edge does: the grid calls, the labels it drops, the
\* unchecked subtractions, the cells of an inline label or marker, and the
\* lengths of the straight runs of the route
Routed(ops, dropped, subs, label_cells, marker_cells, runs) ==
    [ops |-> ops, dropped |-> dropped, subs |-> subs, label_cells |-> label_cells,
     marker_cells |-> marker_cells, runs |-> runs]

\* "if end > start { end - 1 } else { end + 1 }": the arrow one cell before the end
ArrowBefore(end, start) == IF end > start THEN end - 1 ELSE end + 1

draw_horizontal_edge(start_x, start_y, end_x, end_y, h_char, v_char, arrow_char, direction, label, chars, from_id, to_id, next_marker) ==
    IF start_y = end_y
    THEN LET from_x == IF end_x > start_x THEN start_x ELSE end_x
             to_x == IF end_x > start_x THEN end_x ELSE start_x
             line == LoopOps(from_x, to_x, LAMBDA x :
                        <<OpLine(x, start_y, h_char, TRUE, chars.cross)>>)
                     \o <<OpSetIfEmpty(ArrowBefore(end_x, start_x), end_y, arrow_char)>>
             edge_len == SatSub(to_x, from_x)
             lbl == label[1]
             label_x == from_x + (edge_len - display_width(lbl)) \div 2
             marker_text == MarkerText(next_marker)
             marker_x == from_x + (edge_len - Len(marker_text)) \div 2
             arrow_subs == {ArrowBefore(end_x, start_x)}
         IN IF label = <<>> THEN Routed(line, <<>>, arrow_subs, <<>>, <<>>, {edge_len})
            ELSE IF edge_len >= display_width(lbl)
            THEN Routed(line \o EnumOps(label_x, start_y, lbl), <<>>,
                        arrow_subs \cup {edge_len - display_width(lbl)},
                        EnumCells(label_x, start_y, lbl), <<>>, {edge_len})
            ELSE IF edge_len >= Len(marker_text)
            THEN Routed(line \o EnumOps(marker_x, start_y, marker_text),
                        <<DroppedLabel(marker_text, lbl, from_id, to_id)>>,
                        arrow_subs \cup {edge_len - Len(marker_text)},
                        <<>>, EnumCells(marker_x, start_y, marker_text), {edge_len})
            ELSE Routed(line, <<DroppedLabel(marker_text, lbl, from_id, to_id)>>,
                        arrow_subs, <<>>, <<>>, {edge_len})
    ELSE LET mid_x == start_x + SatSub(end_x, start_x) \div 2
             is_lr == direction = "LR"
             from_x1 == IF mid_x > start_x THEN start_x ELSE mid_x
             to_x1 == IF mid_x > start_x THEN mid_x ELSE start_x
             corner1 == IF end_y > start_y
                        THEN (IF is_lr THEN chars.tr ELSE chars.tl)
                        ELSE (IF is_lr THEN chars.br ELSE chars.bl)
             from_y == IF end_y > start_y THEN start_y + 1 ELSE end_y + 1
             to_y == IF end_y > start_y THEN end_y ELSE start_y
             vert_len == SatSub(to_y, from_y)
             lbl == label[1]
             label_y == from_y + vert_len \div 2
             corner2 == IF end_y > start_y
                        THEN (IF is_lr THEN chars.bl ELSE chars.br)
                        ELSE (IF is_lr THEN chars.tl ELSE chars.tr)
             from_x2 == IF end_x > mid_x THEN mid_x + 1 ELSE end_x
             to_x2 == IF end_x > mid_x THEN end_x ELSE mid_x
             first == LoopOps(from_x1, to_x1, LAMBDA x :
                         <<OpLine(x, start_y, h_char, TRUE, chars.cross)>>)
                      \o <<OpSetIfEmpty(mid_x, start_y, corner1)>>
                      \o LoopOps(from_y, to_y, LAMBDA y :
                            <<OpLine(mid_x, y, v_char, FALSE, chars.cross)>>)
             last == <<OpSetIfEmpty(mid_x, end_y, corner2)>>
                     \o LoopOps(from_x2, to_x2, LAMBDA x :
                           <<OpLine(x, end_y, h_char, TRUE, chars.cross)>>)
                     \o <<OpSetIfEmpty(ArrowBefore(end_x, mid_x), end_y, arrow_char)>>
             runs == {SatSub(to_x1, from_x1), vert_len, SatSub(to_x2, from_x2)}
             arrow_subs == {ArrowBefore(end_x, mid_x)}
         IN IF label = <<>> THEN Routed(first \o last, <<>>, arrow_subs, <<>>, <<>>, runs)
            ELSE IF vert_len > 0
            THEN Routed(first \o EnumOps(mid_x + 1, label_y, lbl) \o last, <<>>,
                        arrow_subs, EnumCells(mid_x + 1, label_y, lbl), <<>>, runs)
            ELSE Routed(first \o last,
                        <<DroppedLabel(MarkerText(next_marker), lbl, from_id, to_id)>>,
                        arrow_subs, <<>>, <<>>, runs)

draw_vertical_edge(start_x, start_y, end_x, end_y, h_char, v_char, arrow_char, direction, label, chars, from_id, to_id, next_marker) ==
    IF start_x = end_x
    THEN LET from_y == IF end_y > start_y THEN start_y ELSE end_y
             to_y == IF end_y > start_y THEN end_y ELSE start_y
             line == LoopOps(from_y, to_y, LAMBDA y :
                        <<OpLine(start_x, y, v_char, FALSE, chars.cross)>>)
                     \o <<OpSetIfEmpty(end_x, ArrowBefore(end_y, start_y), arrow_char)>>
             edge_len == SatSub(to_y, from_y)
             lbl == label[1]
             label_y == from_y + edge_len \div 2
             arrow_subs == {ArrowBefore(end_y, start_y)}
         IN IF label = <<>> THEN Routed(line, <<>>, arrow_subs, <<>>, <<>>, {edge_len})
            ELSE IF edge_len > 0
            THEN Routed(line \o EnumOps(start_x + 1, label_y, lbl), <<>>, arrow_subs,
                        EnumCells(start_x + 1, label_y, lbl), <<>>, {edge_len})
            ELSE Routed(line,
                        <<DroppedLabel(MarkerText(next_marker), lbl, from_id, to_id)>>,
                        arrow_subs, <<>>, <<>>, {edge_len})
    ELSE LET mid_y == start_y + SatSub(end_y, start_y) \div 2
             is_tb == direction = "TB"
             from_y1 == IF mid_y > start_y THEN start_y ELSE mid_y
             to_y1 == IF mid_y > start_y THEN mid_y ELSE start_y
             corner1 == IF end_x > start_x
                        THEN (IF is_tb THEN chars.bl ELSE chars.tl)
                        ELSE (IF is_tb THEN chars.br ELSE chars.tr)
             from_x == IF end_x > start_x THEN start_x + 1 ELSE end_x + 1
             to_x == IF end_x > start_x THEN end_x ELSE start_x
             horiz_len == SatSub(to_x, from_x)
             lbl == label[1]
             label_x == from_x + (horiz_len - display_width(lbl)) \div 2
             vert_len == SatSub(mid_y, start_y)
             label_y == start_y + vert_len \div 2
             marker_text == MarkerText(next_marker)
             marker_x == from_x + (horiz_len - Len(marker_text)) \div 2
             corner2 == IF end_x > start_x
                        THEN (IF is_tb THEN chars.tr ELSE chars.br)
                        ELSE (IF is_tb THEN chars.tl ELSE chars.bl)
             from_y2 == IF end_y > mid_y THEN mid_y + 1 ELSE end_y
             to_y2 == IF end_y > mid_y THEN end_y ELSE mid_y
             first == LoopOps(from_y1, to_y1, LAMBDA y :
                         <<OpLine(start_x, y, v_char, FALSE, chars.cross)>>)
                      \o <<OpSetIfEmpty(start_x, mid_y, corner1)>>
                      \o LoopOps(from_x, to_x, LAMBDA x :
                            <<OpLine(x, mid_y, h_char, TRUE, chars.cross)>>)
             last == <<OpSetIfEmpty(end_x, mid_y, corner2)>>
                     \o LoopOps(from_y2, to_y2, LAMBDA y :
                           <<OpLine(end_x, y, v_char, FALSE, chars.cross)>>)
                     \o <<OpSetIfEmpty(end_x, ArrowBefore(end_y, mid_y), arrow_char)>>
             runs == {SatSub(to_y1, from_y1), horiz_len, SatSub(to_y2, from_y2)}
             arrow_subs == {ArrowBefore(end_y, mid_y)}
         IN IF label = <<>> THEN Routed(first \o last, <<>>, arrow_subs, <<>>, <<>>, runs)
            ELSE IF horiz_len >= display_width(lbl)
            THEN Routed(first \o EnumOps(label_x, mid_y, lbl) \o last, <<>>,
                        arrow_subs \cup {horiz_len - display_width(lbl)},
                        EnumCells(label_x, mid_y, lbl), <<>>, runs)
            ELSE IF vert_len > 0
            THEN Routed(first \o EnumOps(start_x + 1, label_y, lbl) \o last, <<>>,
                        arrow_subs, EnumCells(start_x + 1, label_y, lbl), <<>>, runs)
            ELSE IF horiz_len >= Len(marker_text)
            THEN Routed(first \o EnumOps(marker_x, mid_y, marker_text) \o last,
                        <<DroppedLabel(marker_text, lbl, from_id, to_id)>>,
                        arrow_subs \cup {horiz_len - Len(marker_text)},
                        <<>>, EnumCells(marker_x, mid_y, marker_text), runs)
            ELSE Routed(first \o last,
                        <<DroppedLabel(marker_text, lbl, from_id, to_id)>>,
                        arrow_subs, <<>>, <<>>, runs)

\* the anchors of draw_edge: <<start_x, start_y, end_x, end_y>>
EdgeAnchors(from, to, direction) ==
    CASE direction = "LR" ->
            <<from.x + from.width, from.y + from.height \div 2,
              to.x, to.y + to.height \div 2>>
      [] direction = "RL" ->
            <<from.x, from.y + from.height \div 2,
              to.x + to.width, to.y + to.height \div 2>>
      [] direction = "TB" ->
            <<from.x + from.width \div 2, from.y + from.height,
              to.x + to.width \div 2, to.y>>
      [] direction = "BT" ->
            <<from.x + from.width \div 2, from.y,
              to.x + to.width \div 2, to.y + to.height>>

\* draw_edge asks find_path for a route when the anchors share no row or column
UsesAStar(path_grid, from, to, direction) ==
    LET a == EdgeAnchors(from, to, direction)
    IN /\ a[1] # a[3]
       /\ a[2] # a[4]
       /\ FindPathSearches(path_grid, <<a[1], a[2]>>, <<a[3], a[4]>>)

\* draw_edge on the path where find_path returns None: the manual routing
draw_edge(from, to, edge, chars, direction, ascii, next_marker) ==
    LET has_arrow == style_has_arrow(edge.style)
        hv == get_edge_chars(edge.style, chars, ascii)
        a == EdgeAnchors(from, to, direction)
        arrow_char ==
            CASE direction = "LR" -> IF has_arrow THEN chars.arr_r ELSE hv[1]
              [] direction = "RL" -> IF has_arrow THEN chars.arr_l ELSE hv[1]
              [] direction = "TB" -> IF has_arrow THEN chars.arr_d ELSE hv[2]
              [] direction = "BT" -> IF has_arrow THEN chars.arr_u ELSE hv[2]
    IN IF IsHorizontal(direction)
       THEN draw_horizontal_edge(a[1], a[2], a[3], a[4], hv[1], hv[2], arrow_char,
                                 direction, edge.label, chars, edge.from, edge.to,
                                 next_marker)
       ELSE draw_vertical_edge(a[1], a[2], a[3], a[4], hv[1], hv[2], arrow_char,
                               direction, edge.label, chars, edge.from, edge.to,
                               next_marker)

----------------------------------------------------------------------------
(* renderer/mod.rs: render_graph                                           *)

\* isize::MAX, the most bytes one allocation may ask for
IsizeMax == UsizeMax \div 2

\* Grid::new panics with "capacity overflow" when a row of `width` chars
\* (4 bytes each) or the vector of `height` rows (24 bytes each) would
\* exceed isize::MAX bytes
GridAllocFails(width, height) ==
    width > IsizeMax \div 4 \/ height > IsizeMax \div 24

\* sorted_nodes: the map's values, then sort_by id
SortedNodes(g, order) == SortIds(HashIter(order, NodeIds(g)))

\* max_x and max_y over nodes and subgraphs: <<max_x, max_y>>
GridBounds(g) ==
    LET xs == {g.nodes[id].x + g.nodes[id].width : id \in DOMAIN g.nodes}
              \cup {g.subgraphs[i].x + g.subgraphs[i].width : i \in DOMAIN g.subgraphs}
        ys == {g.nodes[id].y + g.nodes[id].height : id \in DOMAIN g.nodes}
              \cup {g.subgraphs[i].y + g.subgraphs[i].height : i \in DOMAIN g.subgraphs}
    IN <<SetMax(xs \cup {0}), SetMax(ys \cup {0})>>

Underflows(subs) == \E d \in subs : d < 0

Panicked(why) == [stage |-> "panicked", why |-> why]

\* render_graph up to the edge loop: charset, grid, subgraphs, nodes, path grid
RenderSetup(g, opts, order) ==
    LET chars == IF opts.ascii THEN ASCII_CHARS ELSE UNICODE_CHARS
        b == GridBounds(g)
        sgs == [i \in DOMAIN g.subgraphs |-> draw_subgraph(g.subgraphs[i], chars)]
        sorted_nodes == SortedNodes(g, order)
        nds == [i \in 1..Len(sorted_nodes) |-> draw_node(g.nodes[sorted_nodes[i]], chars)]
        ops == Concat([i \in DOMAIN g.subgraphs |->
                          sgs[i].ops \o protect_subgraph_borders(g.subgraphs[i])])
               \o Concat([i \in 1..Len(nds) |-> nds[i].ops])
        subs == UNION {sgs[i].subs : i \in DOMAIN sgs}
                \cup UNION {nds[i].subs : i \in DOMAIN nds}
    IN IF GridAllocFails(b[1] + 2, b[2] + 2) THEN Panicked("capacity overflow")
       ELSE IF Underflows(subs) THEN Panicked("subtract with overflow")
       ELSE [stage |-> "edges",
             graph |-> g,
             grid |-> ApplyOps(GridNew(b[1] + 2, b[2] + 2), ops),
             path_grid |-> build_path_grid(g, b[1] + 2, b[2] + 2),
             next_edge |-> 1,
             dropped_labels |-> <<>>,
             next_marker |-> 1,
             routes |-> <<>>,
             astar |-> FALSE]

\* what the edge loop does with an edge one of whose endpoints is no node
SkippedRoute == Routed(<<>>, <<>>, {}, <<>>, <<>>, {})

\* one iteration of "for edge in &graph.edges"
RenderEdge(r, opts) ==
    LET g == r.graph
        edge == g.edges[r.next_edge]
        chars == IF opts.ascii THEN ASCII_CHARS ELSE UNICODE_CHARS
        present == edge.from \in DOMAIN g.nodes /\ edge.to \in DOMAIN g.nodes
        from == g.nodes[edge.from]
        to == g.nodes[edge.to]
        d == IF present
             THEN draw_edge(from, to, edge, chars, g.direction, opts.ascii, r.next_marker)
             ELSE SkippedRoute
    IN IF Underflows(d.subs) THEN Panicked("subtract with overflow")
       ELSE [r EXCEPT
               !.grid = ApplyOps(@, d.ops),
               !.next_edge = @ + 1,
               !.dropped_labels = @ \o d.dropped,
               !.next_marker = @ + Len(d.dropped),
               !.routes = Append(@, [d EXCEPT !.ops = <<>>]),
               !.astar = @ \/ (present /\ UsesAStar(r.path_grid, from, to, g.direction))]

\* the max_width pass over one line
TruncateLine(line, max_width) ==
    IF CharCount(line) > max_width
    THEN SubSeq(line, 1, Min2(SatSub(max_width, 1), Len(line))) \o <<ELLIPSIS>>
    ELSE line

\* str::lines of the grid text: the text of an all-blank grid has no line
OutputLines(grid) ==
    LET ls == GridToLines(grid) IN IF ls = <<<<>>>> THEN <<>> ELSE ls

LegendLine(dl) == <<" ", " ">> \o dl.marker \o <<" ">> \o dl.label

LabelDroppedWarning(dl) ==
    [kind |-> "LabelDropped", marker |-> dl.marker, edge_from |-> dl.from,
     edge_to |-> dl.to, label |-> dl.label]

\* render_graph after the edge loop: the text (as its lines) and the
\* warnings pushed
RenderFinish(r, opts) ==
    LET grid_lines == IF opts.max_width = <<>> THEN GridToLines(r.grid)
                      ELSE LET ls == OutputLines(r.grid)
                           IN IF ls = <<>> THEN <<<<>>>>
                              ELSE [i \in 1..Len(ls) |-> TruncateLine(ls[i], opts.max_width[1])]
        dls == r.dropped_labels
    IN [r EXCEPT !.stage = "done"]
       @@ [grid_lines |-> grid_lines,
           legend |-> IF dls = <<>> THEN <<>>
                      ELSE <<<<"L", "a", "b", "e", "l", "s", ":">>>>
                           \o [i \in 1..Len(dls) |-> LegendLine(dls[i])],
           pushed |-> [i \in 1..Len(dls) |-> LabelDroppedWarning(dls[i])]]

RECURSIVE RenderEdges(_, _)
\* the whole edge loop, from r on
RenderEdges(r, opts) ==
    IF r.stage = "panicked" THEN r
    ELSE IF r.next_edge > Len(r.graph.edges) THEN r
    ELSE RenderEdges(RenderEdge(r, opts), opts)

\* render_graph: the final render state
render_graph(g, opts, order) ==
    LET r == RenderEdges(RenderSetup(g, opts, order), opts)
    IN IF r.stage = "panicked" THEN r ELSE RenderFinish(r, opts)

\* compute_layout_with_options followed by render_graph, as
\* render_mermaid_to_tui runs them: what the caller observes
Pipeline(g, opts, order) ==
    LET lay == compute_layout_with_options(g, opts, order)
        r == render_graph(lay.graph, opts, order)
    IN IF r.stage = "panicked" THEN [panicked |-> TRUE]
       ELSE [panicked |-> FALSE,
             output |-> r.grid_lines \o r.legend,
             warnings |-> lay.warnings \o r.pushed]

----------------------------------------------------------------------------
(* types.rs constructors                                                   *)

\* Node::with_shape; the label of a node is a sequence of characters
NewNode(id, label, shape) ==
    [id |-> id, label |-> label, shape |-> shape, fields |-> <<>>,
     width |-> 0, height |-> 0, x |-> 0, y |-> 0]

NewEdge(from, to, label, style) ==
    [from |-> from, to |-> to, label |-> label, style |-> style]

\* the label a collaborator gives a node it was told nothing about: its id
IdLabel(id) == Digits(id)

DefaultOptions ==
    [ascii |-> FALSE, max_width |-> None, padding_x |-> 8, padding_y |-> 4,
     border_padding |-> 1]

----------------------------------------------------------------------------
(* Specification of assign_layers alone, one loop iteration per step       *)

EdgeLists(n) == UNION {[1..m -> IDS \X IDS] : m \in 0..n}

PlainGraph(present, pairs) ==
    [direction |-> "LR",
     nodes     |-> [id \in present |-> NewNode(id, IdLabel(id), "Rectangle")],
     edges     |-> [i \in 1..Len(pairs) |->
                      NewEdge(pairs[i][1], pairs[i][2], None, "Arrow")],
     subgraphs |-> <<>>]

AscendingOrder == [i \in 1..MaxId |-> i]
DescendingOrder == [i \in 1..MaxId |-> MaxId + 1 - i]

NoRender == [stage |-> "none"]

NoSearch == [stage |-> "none"]

NoBounds == [stage |-> "none"]

NoCell == [stage |-> "none"]

InitLayers ==
    /\ \E present \in {IDS, IDS \ {MaxId}} : \E pairs \in EdgeLists(MaxEdges) :
          graph = PlainGraph(present, pairs)
    /\ options = DefaultOptions
    /\ hashOrder \in {AscendingOrder, DescendingOrder}
    /\ pc = "kahn"
    /\ layering = KahnInit(graph, hashOrder)
    /\ warnings = <<>>
    /\ render = NoRender
    /\ search = NoSearch
    /\ bounds = NoBounds
    /\ gridCell = NoCell

Dequeue ==
    /\ pc = "kahn"
    /\ layering.queue # <<>>
    /\ layering' = KahnDequeue(graph, layering)
    /\ UNCHANGED <<graph, options, hashOrder, pc, warnings, render, search, bounds, gridCell>>

Stall ==
    /\ pc = "kahn"
    /\ layering.queue = <<>>
    /\ ~KahnExit(graph, layering)
    /\ layering' = KahnStall(graph, layering, hashOrder)
    /\ UNCHANGED <<graph, options, hashOrder, pc, warnings, render, search, bounds, gridCell>>

Exit ==
    /\ pc = "kahn"
    /\ KahnExit(graph, layering)
    /\ warnings' = warnings \o CycleWarnings(layering, hashOrder)
    /\ pc' = "layered"
    /\ UNCHANGED <<graph, options, hashOrder, layering, render, search, bounds, gridCell>>

NextLayers == Dequeue \/ Stall \/ Exit

SpecLayers == InitLayers /\ [][NextLayers]_vars

----------------------------------------------------------------------------
(* Specification of the whole pipeline: compute_layout_with_options, then  *)
(* render_graph one loop iteration per step                                *)

MaxRenderId == 3
MaxRenderEdges == 2
LongLen == 10
NarrowWidth == 12

RenderIds == 1..MaxRenderId

\* edge labels: one that fits the default gap and one that does not
ShortLabel == <<"o", "k">>
LongLabel == [i \in 1..LongLen |-> "x"]
EdgeLabels == {None, Some(ShortLabel), Some(LongLabel)}

\* RenderOptions the pipeline is run with
AsciiNarrowOptions == [DefaultOptions EXCEPT !.ascii = TRUE, !.max_width = Some(NarrowWidth)]
TightOptions == [DefaultOptions EXCEPT !.padding_x = 2, !.padding_y = 0, !.border_padding = 0]
HugeOptions == [DefaultOptions EXCEPT !.padding_x = UsizeMax \div 8]

\* the shapes given to nodes 1, 2, 3, ... (cyclically)
ShapeSchemes ==
    {<<"Rectangle", "Rectangle", "Rectangle">>,
     <<"Cylinder", "Table", "Person">>,
     <<"Rounded", "Circle", "Diamond">>,
     <<"Stadium", "Subroutine", "Hexagon">>,
     <<"Parallelogram", "ParallelogramAlt", "Trapezoid">>,
     <<"TrapezoidAlt", "Cloud", "Document">>}

PlainScheme == <<"Rectangle", "Rectangle", "Rectangle">>

SampleField == [name |-> <<"i", "d">>, type_info |-> Some(<<"i", "n", "t">>),
                constraint |-> Some(<<"primary_key">>)]

ShapedNode(id, scheme) ==
    LET shape == scheme[((id - 1) % Len(scheme)) + 1]
    IN [NewNode(id, IdLabel(id), shape) EXCEPT
          !.fields = IF shape = "Table" THEN <<SampleField>> ELSE <<>>]

SampleSubgraph ==
    [id |-> "sg", label |-> <<"s">>, nodes |-> <<1, 2>>, parent |-> None,
     x |-> 0, y |-> 0, width |-> 0, height |-> 0]

\* lists of at most n labelled edges over ids
LabelledEdgeLists(ids, n) ==
    UNION {[1..m -> ids \X ids \X EdgeLabels] : m \in 0..n}

RenderGraphOf(direction, present, scheme, triples, sgs) ==
    [direction |-> direction,
     nodes     |-> [id \in present |-> ShapedNode(id, scheme)],
     edges     |-> [i \in 1..Len(triples) |->
                      NewEdge(triples[i][1], triples[i][2], triples[i][3], "Arrow")],
     subgraphs |-> sgs]

\* the inputs: every short edge list over plain rectangles under the
\* default options; and, with at most one edge, every option set, shape
\* scheme, a missing endpoint and a subgraph
InitRender ==
    /\ \/ /\ options = DefaultOptions
          /\ \E direction \in {"LR", "RL", "TB", "BT"} :
             \E triples \in LabelledEdgeLists(RenderIds, MaxRenderEdges) :
                graph = RenderGraphOf(direction, RenderIds, PlainScheme, triples, <<>>)
       \/ /\ options \in {DefaultOptions, AsciiNarrowOptions, TightOptions, HugeOptions}
          /\ \E direction \in {"LR", "RL", "TB", "BT"} :
             \E present \in {RenderIds, RenderIds \ {MaxRenderId}} :
             \E scheme \in ShapeSchemes :
             \E triples \in LabelledEdgeLists(RenderIds, 1) :
             \E sgs \in {<<>>, <<SampleSubgraph>>} :
                graph = RenderGraphOf(direction, present, scheme, triples, sgs)
    /\ hashOrder \in {AscendingOrder, DescendingOrder}
    /\ pc = "input"
    /\ layering = KahnInit(graph, hashOrder)
    /\ warnings = <<>>
    /\ render = NoRender
    /\ search = NoSearch
    /\ bounds = NoBounds
    /\ gridCell = NoCell

\* compute_layout_with_options(&mut graph, &options)
Layout ==
    /\ pc = "input"
    /\ LET lay == compute_layout_with_options(graph, options, hashOrder)
       IN /\ render' = [stage |-> "laid", graph |-> lay.graph,
                         layers |-> lay.layers, gaps |-> lay.gaps]
          /\ warnings' = warnings \o lay.warnings
    /\ pc' = "laid"
    /\ UNCHANGED <<graph, options, hashOrder, layering, search, bounds, gridCell>>

\* render_graph, lines 51-93: grid, subgraphs, nodes, path grid
Setup ==
    /\ pc = "laid"
    /\ render' = RenderSetup(render.graph, options, hashOrder)
    /\ pc' = IF render'.stage = "panicked" THEN "panicked" ELSE "edges"
    /\ UNCHANGED <<graph, options, hashOrder, layering, warnings, search, bounds, gridCell>>

\* render_graph, lines 95-110: one iteration of the edge loop
DrawEdge ==
    /\ pc = "edges"
    /\ render.next_edge <= Len(render.graph.edges)
    /\ render' = RenderEdge(render, options)
    /\ pc' = IF render'.stage = "panicked" THEN "panicked" ELSE "edges"
    /\ UNCHANGED <<graph, options, hashOrder, layering, warnings, search, bounds, gridCell>>

\* render_graph, lines 112-151: text, truncation, legend, warnings
Finish ==
    /\ pc = "edges"
    /\ render.next_edge > Len(render.graph.edges)
    /\ render' = RenderFinish(render, options)
    /\ warnings' = warnings \o render'.pushed
    /\ pc' = "done"
    /\ UNCHANGED <<graph, options, hashOrder, layering, search, bounds, gridCell>>

NextRender == Layout \/ Setup \/ DrawEdge \/ Finish

SpecRender == InitRender /\ [][NextRender]_vars

----------------------------------------------------------------------------------------------------------------------------------------
(* Specification of find_path alone, one iteration of its loop per step    *)

PathWidth == 3
PathHeight == 3

\* the cells of the PathGrid
PathCells == (0..(PathWidth - 1)) \X (0..(PathHeight - 1))

\* start and goal: any cell, or a position just outside the grid
PathEnds == PathCells \cup {<<PathWidth, 0>>, <<0, PathHeight>>}

InitPath ==
    /\ graph = PlainGraph({}, <<>>)
    /\ options = DefaultOptions
    /\ hashOrder = AscendingOrder
    /\ pc = "path_input"
    /\ layering = KahnInit(graph, hashOrder)
    /\ warnings = <<>>
    /\ render = NoRender
    /\ bounds = NoBounds
    /\ gridCell = NoCell
    /\ \E blocked \in SUBSET PathCells : \E start \in PathEnds : \E goal \in PathEnds :
          search = [stage |-> "called",
                    path_grid |-> [width |-> PathWidth, height |-> PathHeight,
                                   blocked |-> blocked],
                    start |-> start, goal |-> goal]

\* find_path is entered: it returns None at once or sets up its locals
PathEnter ==
    /\ pc = "path_input"
    /\ search' = SearchInit(search.path_grid, search.start, search.goal)
    /\ pc' = IF search'.stage = "returned" THEN "path_done" ELSE "path_loop"
    /\ UNCHANGED <<graph, options, hashOrder, layering, warnings, render, bounds, gridCell>>

\* the loop pops the goal and returns the path
PathFound ==
    /\ pc = "path_loop"
    /\ \E current \in PopCandidates(search.open_set) :
          /\ current.pos = search.goal
          /\ search' = SearchFound(search, current)
    /\ pc' = "path_done"
    /\ UNCHANGED <<graph, options, hashOrder, layering, warnings, render, bounds, gridCell>>

\* the loop pops another cell and relaxes its neighbors
PathExpand ==
    /\ pc = "path_loop"
    /\ \E current \in PopCandidates(search.open_set) :
          /\ current.pos # search.goal
          /\ search' = SearchExpand(search, current)
    /\ UNCHANGED <<graph, options, hashOrder, pc, layering, warnings, render, bounds, gridCell>>

\* the heap is empty: find_path returns None
PathExhausted ==
    /\ pc = "path_loop"
    /\ search.open_set = {}
    /\ search' = SearchExhausted(search)
    /\ pc' = "path_done"
    /\ UNCHANGED <<graph, options, hashOrder, layering, warnings, render, bounds, gridCell>>

NextPath == PathEnter \/ PathFound \/ PathExpand \/ PathExhausted

SpecPath == InitPath /\ [][NextPath]_vars

\* the loop of find_path is a sequential loop: it keeps taking steps
SpecPathFair == SpecPath /\ WF_vars(NextPath)

----------------
(* Graph-theoretic vocabulary of the claims                                *)

Succ(g, n) == {g.edges[i].to : i \in {j \in 1..Len(g.edges) : g.edges[j].from = n}}

RECURSIVE Closure(_, _)
\* the ids reachable from the set S by zero or more edges
Closure(g, S) ==
    LET T == S \cup UNION {Succ(g, n) : n \in S}
    IN IF T = S THEN S ELSE Closure(g, T)

\* n lies on a directed cycle (a self-loop is a cycle)
OnCycle(g, n) == n \in Closure(g, Succ(g, n))

EdgeIds(g) == UNION {{g.edges[i].from, g.edges[i].to} : i \in 1..Len(g.edges)}

HasCycle(g) == \E n \in EdgeIds(g) : OnCycle(g, n)

RECURSIVE ClosureIn(_, _, _)
\* the ids of N reachable from S by edges between ids of N
ClosureIn(g, S, N) ==
    LET T == S \cup (N \cap UNION {Succ(g, n) : n \in S})
    IN IF T = S THEN S ELSE ClosureIn(g, T, N)

\* some directed cycle runs through nodes of graph.nodes only
HasNodeCycle(g) ==
    \E n \in NodeIds(g) :
        n \in ClosureIn(g, Succ(g, n) \cap NodeIds(g), NodeIds(g))

EndpointsExist(g) == EdgeIds(g) \subseteq NodeIds(g)

HasDuplicateEdge(g) ==
    \E i, j \in 1..Len(g.edges) :
        i < j /\ g.edges[i].from = g.edges[j].from /\ g.edges[i].to = g.edges[j].to

CycleWarningsOf(ws) == SelectSeq(ws, LAMBDA w : w.kind = "CycleDetected")

----------------------------------------------------------------------------
(* Claims about assign_layers (checked under SpecLayers)                   *)

\* C1: for a graph with no directed cycle (duplicate parallel edges
\* allowed; stated here for graphs whose edge endpoints are all nodes),
\* the layout returns an empty warning list.
C1_AcyclicNoWarnings ==
    (pc = "layered" /\ EndpointsExist(graph) /\ ~HasCycle(graph))
        => warnings = <<>>

\* C2: for an acyclic graph (duplicate edges allowed; stated here for
\* graphs whose edge endpoints are all nodes) every edge u->v has
\* layer(v) >= layer(u) + 1 and every node without incoming edges has
\* layer 0.
C2_LayersRespectEdges ==
    (pc = "layered" /\ EndpointsExist(graph) /\ ~HasCycle(graph))
        => /\ \A i \in 1..Len(graph.edges) :
                layering.node_layers[graph.edges[i].to]
                    >= layering.node_layers[graph.edges[i].from] + 1
           /\ \A n \in NodeIds(graph) :
                (\A i \in 1..Len(graph.edges) : graph.edges[i].to # n)
                    => layering.node_layers[n] = 0

\* the stuck nodes with an edge to a stuck node, over all stalls
StallParticipants ==
    UNION {{n \in layering.stalls[r] :
                Succ(graph, n) \cap layering.stalls[r] # {}} :
           r \in 1..Len(layering.stalls)}

\* C3: for a graph containing a directed cycle (self-loops included;
\* stated here for a cycle through nodes of graph.nodes) the layout emits
\* exactly one CycleDetected warning, whose node list is duplicate-free,
\* sorted, and equal to the set of nodes that at some stall were stuck and
\* had an edge to a stuck node.
C3_OneCycleWarning ==
    (pc = "layered" /\ HasNodeCycle(graph))
        => /\ Len(CycleWarningsOf(warnings)) = 1
           /\ LET ns == CycleWarningsOf(warnings)[1].nodes
              IN /\ \A i, j \in 1..Len(ns) : i < j => ns[i] < ns[j]
                 /\ Range(ns) = StallParticipants

\* C4: every node listed in a CycleDetected warning lies on a directed
\* cycle of the graph (stated here for graphs whose edge endpoints are
\* all nodes).
C4_ListedNodesOnCycle ==
    (pc = "layered" /\ EndpointsExist(graph))
        => \A w \in 1..Len(warnings) :
              warnings[w].kind = "CycleDetected"
                  => \A n \in Range(warnings[w].nodes) : OnCycle(graph, n)

\* C3 restricted to graphs whose edge endpoints are all nodes
C3_WhenEndpointsExist ==
    EndpointsExist(graph) => C3_OneCycleWarning

----------------------------------------------------------------------------
(* Vocabulary of the claims about the rendered text                        *)

\* text occurs as a run of consecutive cells of one row of the grid
OnGrid(grid, text) ==
    \E y \in 0..(grid.height - 1) :
    \E x \in 0..(grid.width - Len(text)) :
        \A i \in 1..Len(text) : grid.cells[y][x + i - 1].c = text[i]

\* the edges of the input that carry a label and join two nodes
LabelledEdges ==
    {i \in 1..Len(graph.edges) :
        /\ graph.edges[i].label # None
        /\ graph.edges[i].from \in NodeIds(graph)
        /\ graph.edges[i].to \in NodeIds(graph)}

EdgeLabel(i) == graph.edges[i].label[1]

\* the edge loop dropped the label of edge i
DroppedAt(i) == render.routes[i].dropped # <<>>

\* the length of the longest straight run of the route of edge i
LongestRun(i) == SetMax(render.routes[i].runs)

LabelDroppedWarnings == SelectSeq(warnings, LAMBDA w : w.kind = "LabelDropped")

\* the legend has a line made of a marker and the label of edge i, and
\* the warning list has a LabelDropped warning for edge i with that marker
InLegendWithWarning(i) ==
    \E w \in Range(LabelDroppedWarnings) :
        /\ w.edge_from = graph.edges[i].from
        /\ w.edge_to = graph.edges[i].to
        /\ w.label = EdgeLabel(i)
        /\ \E l \in 2..Len(render.legend) :
              render.legend[l] = <<" ", " ">> \o w.marker \o <<" ">> \o EdgeLabel(i)

\* the observable result of the run in progress, once it has ended
Observed ==
    IF pc = "panicked" THEN [panicked |-> TRUE]
    ELSE [panicked |-> FALSE,
          output |-> render.grid_lines \o render.legend,
          warnings |-> warnings]

\* the indices of the edges whose label was dropped, in edge-list order
DroppedEdges ==
    SelectSeq([i \in 1..Len(render.routes) |-> i], LAMBDA i : DroppedAt(i))

----------------------------------------------------------------------------
(* Claims about the pipeline (checked under SpecRender)                    *)

\* draw_edge never gets a route from find_path: one of the two anchors is
\* always inside a node rectangle, so the manual routing always runs
AStarNeverSearches ==
    pc \in {"edges", "done"} => ~render.astar

\* C5: determinism: for a fixed Graph and RenderOptions the layout followed
\* by the rendering yields the same output text and the same warning list
\* whatever the iteration order of the hash maps.
\* The run in progress used hashOrder; it is compared with the other order,
\* first when the layout has returned (positions and CycleDetected warnings)
\* and again when the rendering has returned (output and all warnings).
C5_Deterministic ==
    \A order \in {AscendingOrder, DescendingOrder} \ {hashOrder} :
        /\ pc = "laid" =>
              LET lay == compute_layout_with_options(graph, options, order)
              IN lay.graph = render.graph /\ lay.warnings = warnings
        /\ pc \in {"done", "panicked"} =>
              Pipeline(graph, options, order) = Observed

\* a run over a reversed map order that had to break a cycle among
\* several stuck nodes
C5_Witness ==
    /\ pc = "done"
    /\ hashOrder = DescendingOrder
    /\ \E w \in Range(warnings) : w.kind = "CycleDetected" /\ Len(w.nodes) >= 2

\* C6: for any well-typed Graph with unique node ids and any RenderOptions
\* the layout followed by the rendering runs to completion: no unsigned
\* subtraction underflows, no index is out of range, no fatal error.
C6_NoPanic == pc # "panicked"

\* C6 for options whose paddings are small: the pipeline runs to completion
C6_NoPanicSmallPadding == options # HugeOptions => pc # "panicked"

\* C7: no edge label is lost silently: for every labelled edge whose
\* endpoints exist, after render_graph returns either the complete label
\* text is on the grid, or the label is in the legend and a LabelDropped
\* warning for that edge is in the warning list.
C7_NoSilentLabelLoss ==
    pc = "done"
        => \A i \in LabelledEdges :
              OnGrid(render.grid, EdgeLabel(i)) \/ InLegendWithWarning(i)

\* C8: if display_width(label) is at most the length of the edge's longest
\* straight run, the label is written verbatim on the grid and no
\* LabelDropped warning is emitted for that edge; and no legend is appended
\* when this holds for all edges.
C8_FittingLabelInline ==
    pc = "done"
        => /\ \A i \in LabelledEdges :
                 display_width(EdgeLabel(i)) <= LongestRun(i)
                    => OnGrid(render.grid, EdgeLabel(i)) /\ ~DroppedAt(i)
           /\ (\A i \in LabelledEdges : display_width(EdgeLabel(i)) <= LongestRun(i))
                 => render.legend = <<>>

\* C9: if display_width(label) exceeds the edge's longest straight run,
\* exactly one LabelDropped warning is emitted for that edge, and its
\* marker appears both on the grid and in the legend line that carries the
\* full label text.
C9_OversizedLabelDropped ==
    pc = "done"
        => \A i \in LabelledEdges :
              display_width(EdgeLabel(i)) > LongestRun(i)
                 => /\ Len(render.routes[i].dropped) = 1
                    /\ OnGrid(render.grid, render.routes[i].dropped[1].marker)
                    /\ InLegendWithWarning(i)

\* an input with default options and a single edge that is no self-loop
SingleProperEdge ==
    /\ options = DefaultOptions
    /\ Len(graph.edges) = 1
    /\ graph.edges[1].from # graph.edges[1].to

\* C7, C8 and C9 restricted to such inputs (each is violated there too)
C7_SingleProperEdge == SingleProperEdge => C7_NoSilentLabelLoss
C8_SingleProperEdge == SingleProperEdge => C8_FittingLabelInline
C9_SingleProperEdge == SingleProperEdge => C9_OversizedLabelDropped

\* C10: the k-th dropped label, in edge-list order, gets the marker "[k]",
\* counted from 1; legend lines and LabelDropped warnings correspond one to
\* one in that order with equal marker, label, edge_from and edge_to; and
\* every LabelDropped warning follows any CycleDetected warning.
C10_MarkerNumbering ==
    pc = "done"
        => /\ Len(LabelDroppedWarnings) = Len(DroppedEdges)
           /\ Len(render.legend) = IF DroppedEdges = <<>> THEN 0
                                   ELSE Len(DroppedEdges) + 1
           /\ \A k \in 1..Len(DroppedEdges) :
                 LET e == graph.edges[DroppedEdges[k]]
                     w == LabelDroppedWarnings[k]
                 IN /\ w.marker = <<"[">> \o Digits(k) \o <<"]">>
                    /\ w.label = e.label[1]
                    /\ w.edge_from = e.from
                    /\ w.edge_to = e.to
                    /\ render.legend[k + 1] = <<" ", " ">> \o w.marker \o <<" ">> \o w.label
           /\ \A a, b \in 1..Len(warnings) :
                 (warnings[a].kind = "CycleDetected" /\ warnings[b].kind = "LabelDropped")
                    => a < b

\* two labels dropped in one rendering of a graph with a cycle
C10_Witness ==
    /\ pc = "done"
    /\ Len(DroppedEdges) >= 2
    /\ \E w \in Range(warnings) : w.kind = "CycleDetected"

----------------------------------------------------------------------------
(* Claims about the max_width pass (checked under SpecRender)              *)

\* the lines of the text render_graph returned
ReturnedLines == render.grid_lines \o render.legend

\* C11: with max_width = W set, every line of the returned text (grid
\* lines and legend lines alike) has display width at most W, every line
\* that was shortened ends with the ellipsis, and the other lines are
\* unchanged.
C11_WidthBounded ==
    (pc = "done" /\ options.max_width # None)
        => LET W == options.max_width[1]
               before == OutputLines(render.grid)
           IN /\ \A i \in 1..Len(ReturnedLines) : display_width(ReturnedLines[i]) <= W
              /\ \A i \in 1..Len(before) :
                    \/ render.grid_lines[i] = before[i]
                    \/ /\ Len(render.grid_lines[i]) < Len(before[i])
                       /\ render.grid_lines[i][Len(render.grid_lines[i])] = ELLIPSIS

\* C11 for the grid lines alone
C11_GridLinesBounded ==
    (pc = "done" /\ options.max_width # None)
        => \A i \in 1..Len(render.grid_lines) :
              display_width(render.grid_lines[i]) <= options.max_width[1]

----------------------------------------------------------------------------
(* Claims about protected cells (checked under SpecRender)                 *)

\* the value Grid::set_if_empty returns, on a cell inside the grid
SetIfEmptyReturns(cell) == ~cell.protected

\* the value Grid::set_line_with_merge returns, on a cell inside the grid
SetLineWithMergeReturns(cell) == ~cell.protected

\* render_graph, lines 75-86, stopped after the subgraphs and the first k
\* nodes of sorted_nodes have been drawn: the grid at that point
GridAfterNodes(g, opts, order, k) ==
    LET chars == IF opts.ascii THEN ASCII_CHARS ELSE UNICODE_CHARS
        b == GridBounds(g)
        sorted_nodes == SortedNodes(g, order)
        ops == Concat([i \in DOMAIN g.subgraphs |->
                          draw_subgraph(g.subgraphs[i], chars).ops
                          \o protect_subgraph_borders(g.subgraphs[i])])
               \o Concat([i \in 1..k |-> draw_node(g.nodes[sorted_nodes[i]], chars).ops])
    IN ApplyOps(GridNew(b[1] + 2, b[2] + 2), ops)

\* the cells of grid, as <<x, y>>
GridCells(grid) == (0..(grid.width - 1)) \X (0..(grid.height - 1))

\* every cell that is protected in grid `before` is the same cell (same
\* character, flags and protection) in grid `after`
ProtectedKept(before, after) ==
    \A p \in GridCells(before) :
        before.cells[p[2]][p[1]].protected
            => after.cells[p[2]][p[1]] = before.cells[p[2]][p[1]]

\* the cells of node's bounding box that lie inside grid
BoxCells(grid, node) ==
    {p \in GridCells(grid) :
        /\ node.x <= p[1] /\ p[1] < node.x + node.width
        /\ node.y <= p[2] /\ p[2] < node.y + node.height}

\* characters and line directions the drawing routines pass to the grid
ProbeChars == {"x", UNICODE_CHARS.h, ASCII_CHARS.v}

\* When the nodes have been drawn: each node's box was protected as soon
\* as that node was drawn, drawing the later nodes changed no protected
\* cell, and on a protected cell set_if_empty and set_line_with_merge
\* return false and change nothing while mark_protected keeps the flag.
C12_NodesKeepProtected ==
    (pc = "edges" /\ render.next_edge = 1)
        => LET g == render.graph
               sorted_nodes == SortedNodes(g, hashOrder)
               n == Len(sorted_nodes)
           IN \A G \in {[k \in 1..n |-> GridAfterNodes(g, options, hashOrder, k)]} :
              /\ n > 0 => G[n] = render.grid
              /\ \A k \in 1..n :
                    /\ \A p \in BoxCells(G[k], g.nodes[sorted_nodes[k]]) :
                          G[k].cells[p[2]][p[1]].protected
                    /\ ProtectedKept(G[k], render.grid)
              /\ \A p \in GridCells(render.grid) :
                    LET cell == render.grid.cells[p[2]][p[1]]
                    IN cell.protected
                         => /\ ~SetIfEmptyReturns(cell)
                            /\ ~SetLineWithMergeReturns(cell)
                            /\ CellMarkProtected(cell) = cell
                            /\ \A c \in ProbeChars :
                                  /\ CellSetIfEmpty(cell, c) = cell
                                  /\ \A h \in BOOLEAN :
                                        CellSetLineWithMerge(cell, c, h, UNICODE_CHARS.cross) = cell

\* drawing one edge changes no protected cell
C12_EdgeKeepsProtected ==
    (pc = "edges" /\ pc' \in {"edges", "done"}) => ProtectedKept(render.grid, render'.grid)

\* C12: once draw_node has drawn a node and protected its bounding box, no
\* later call made while drawing a node or an edge changes a cell inside
\* that box; on a protected cell set_if_empty and set_line_with_merge
\* return false and leave character and line flags unchanged; and no
\* operation clears a protected flag.
C12_Protection == []C12_NodesKeepProtected /\ [][C12_EdgeKeepsProtected]_vars

\* an edge label was aimed at a protected cell, which kept its character
C12_Witness ==
    /\ pc = "done"
    /\ \E i \in 1..Len(render.routes) :
       \E j \in 1..Len(render.routes[i].label_cells) :
          LET t == render.routes[i].label_cells[j]
          IN /\ InGrid(render.grid, t[1], t[2])
             /\ render.grid.cells[t[2]][t[1]].protected
             /\ render.grid.cells[t[2]][t[1]].c # t[3]

----------------------------------------------------------------------------
(* Claims about find_path (checked under SpecPath and SpecPathFair)        *)

\* p and q are one 4-directional unit step apart
UnitStep(p, q) ==
    \/ p[2] = q[2] /\ (p[1] = q[1] + 1 \/ q[1] = p[1] + 1)
    \/ p[1] = q[1] /\ (p[2] = q[2] + 1 \/ q[2] = p[2] + 1)

\* the cells of the grid that are not blocked
FreeCells(path_grid) ==
    ((0..(path_grid.width - 1)) \X (0..(path_grid.height - 1))) \ path_grid.blocked

RECURSIVE BfsDistance(_, _, _, _, _)
\* breadth-first search over the free cells: the number of steps from the
\* cells of frontier (at distance d) to goal, or -1 when goal is never met
BfsDistance(free, seen, frontier, goal, d) ==
    IF goal \in frontier THEN d
    ELSE IF frontier = {} THEN -1
    ELSE LET next == {q \in free \ seen : \E p \in frontier : UnitStep(p, q)}
         IN BfsDistance(free, seen \cup next, next, goal, d + 1)

\* the shortest 4-connected distance from start to goal through unblocked
\* cells of the grid, or -1 when there is none
ShortestDistance(path_grid, start, goal) ==
    LET free == FreeCells(path_grid)
    IN IF start \notin free THEN -1
       ELSE BfsDistance(free, {start}, {start}, goal, 0)

\* find_path has returned a path
PathReturned == pc = "path_done" /\ search.result # None

\* C13: whenever find_path(start, goal) returns a path, the path begins at
\* start, ends at goal, consecutive cells are one 4-directional unit step
\* apart, and every cell is inside the grid and not blocked.
C13_PathIsValid ==
    PathReturned
        => LET path == search.result[1]
           IN /\ Len(path) >= 1
              /\ path[1] = search.start
              /\ path[Len(path)] = search.goal
              /\ \A i \in 1..(Len(path) - 1) : UnitStep(path[i], path[i + 1])
              /\ \A i \in 1..Len(path) : path[i] \in FreeCells(search.path_grid)

\* a returned path that had to leave the straight line around a blocked cell
C13_Witness ==
    /\ PathReturned
    /\ search.path_grid.blocked # {}
    /\ Len(search.result[1]) - 1 > heuristic(search.start, search.goal)

\* C14: find_path returns an optimal path: its number of steps equals the
\* shortest 4-connected distance from start to goal through unblocked
\* cells as computed by breadth-first search; on an empty grid this is the
\* Manhattan distance.
C14_PathIsShortest ==
    PathReturned
        => /\ Len(search.result[1]) - 1
                = ShortestDistance(search.path_grid, search.start, search.goal)
           /\ search.path_grid.blocked = {}
                => Len(search.result[1]) - 1 = heuristic(search.start, search.goal)

\* a returned path of several steps on a grid where a longer route to the
\* goal exists as well
C14_Witness ==
    /\ PathReturned
    /\ Len(search.result[1]) >= 4
    /\ Cardinality(FreeCells(search.path_grid)) > Len(search.result[1]) + 1

\* what find_path returns is None exactly when goal is not reachable from
\* start (start or goal blocked or outside the grid included), and
\* find_path(p, p) on a valid cell returns [p]
C15_NoneIffUnreachable ==
    pc = "path_done"
        => /\ search.result = None
                <=> ShortestDistance(search.path_grid, search.start, search.goal) = -1
           /\ (search.start = search.goal /\ is_valid(search.path_grid, search.start))
                => search.result = Some(<<search.start>>)

\* while find_path runs, every came_from entry leads to a cell with a
\* smaller g_score, so the walk that rebuilds the path ends
C15_CameFromDescends ==
    pc = "path_loop"
        => \A p \in DOMAIN search.came_from :
              GScore(search.g_score, search.came_from[p]) < GScore(search.g_score, p)

\* C15: find_path always terminates; it returns None exactly when goal is
\* not reachable from start by 4-directional moves through in-bounds
\* unblocked cells; and find_path(p, p) on a valid cell p returns [p].
C15_TerminatesAndDecides ==
    /\ <>(pc = "path_done")
    /\ [](C15_NoneIffUnreachable /\ C15_CameFromDescends)

\* find_path returned None after searching every cell it could reach
C15_Witness ==
    /\ pc = "path_done"
    /\ search.result = None
    /\ is_valid(search.path_grid, search.start)
    /\ is_valid(search.path_grid, search.goal)

----------------------------------------------------------------------------
(* Claims about the laid-out graph (checked under SpecRender)              *)

\* C16: after compute_layout and before the edges are drawn, every edge's
\* from and to id is a key of graph.nodes, an omitted endpoint having been
\* created as a node whose label equals its id; so every edge of the edge
\* list is drawn.
C16_EndpointsCreated ==
    /\ pc \in {"laid", "edges", "done"}
          => \A i \in 1..Len(render.graph.edges) :
                \A id \in {render.graph.edges[i].from, render.graph.edges[i].to} :
                    /\ id \in DOMAIN render.graph.nodes
                    /\ id \notin DOMAIN graph.nodes
                          => render.graph.nodes[id].label = IdLabel(id)
    /\ pc = "done"
          => \A i \in 1..Len(render.routes) : render.routes[i] # SkippedRoute

----------------------------------------------------------------------------
(* Specification of a single node: compute_layout_with_options and the     *)
(* drawing of the node by render_graph, on a graph of one node, over       *)
(* labels, shapes, fields and border paddings                              *)

MaxBorderPadding == 2

\* node labels: empty, short, long, of wide (CJK) glyphs, and mixed
SizeLabels ==
    {<<>>, <<"a">>, <<"a", "b", "c", "d">>, <<"a", "b", "c", "d", "e", "f", "g">>,
     <<"WIDE", "WIDE", "WIDE">>, <<"a", "WIDE">>}

LongField == [name |-> <<"c", "u", "s", "t", "o", "m", "e", "r">>,
              type_info |-> Some(<<"v", "a", "r", "c", "h", "a", "r">>),
              constraint |-> Some(<<"check">>)]

SizeFields == {<<>>, <<SampleField>>, <<SampleField, LongField>>}

InitSize ==
    /\ \E label \in SizeLabels : \E shape \in NodeShapes : \E fields \in SizeFields :
          graph = [direction |-> "TB",
                   nodes |-> (1 :> [NewNode(1, label, shape) EXCEPT !.fields = fields]),
                   edges |-> <<>>,
                   subgraphs |-> <<>>]
    /\ \E bp \in 0..MaxBorderPadding :
          options = [DefaultOptions EXCEPT !.border_padding = bp]
    /\ hashOrder = AscendingOrder
    /\ pc = "input"
    /\ layering = KahnInit(graph, hashOrder)
    /\ warnings = <<>>
    /\ render = NoRender
    /\ search = NoSearch
    /\ bounds = NoBounds
    /\ gridCell = NoCell

NextSize == Layout \/ Setup

SpecSize == InitSize /\ [][NextSize]_vars

----------------------------------------------------------------------------
(* Claims about node sizes (checked under SpecSize)                        *)

\* the width the sizing rule gives a label under a border padding
RuleWidth(label, border_padding) ==
    Max2(MIN_NODE_WIDTH, display_width(label) + 2 * border_padding)

\* node id of the input is a Table with a non-empty field list
IsFieldTable(id) == graph.nodes[id].shape = "Table" /\ graph.nodes[id].fields # <<>>

\* the sizes of the laid-out node id follow the sizing rule
SizedByRule(id) ==
    LET node == render.graph.nodes[id]
        bp == options.border_padding
    IN /\ IF IsFieldTable(id)
          THEN /\ node.height = 3 + Len(node.fields)
               /\ node.width >= RuleWidth(node.label, bp)
               /\ \A i \in 1..Len(node.fields) :
                     node.width >= format_field_width(node.fields[i]) + 2 + 2 * bp
          ELSE /\ node.height = IF node.shape = "Cylinder" THEN 5 ELSE 3
               /\ node.width = RuleWidth(node.label, bp)
       /\ SizedNode(graph.nodes[id], [options EXCEPT !.border_padding = bp + 1]).width
             >= node.width

\* C17: after compute_layout_with_options every node has width =
\* max(5, display_width(label) + 2 * border_padding), wide glyphs counting
\* 2 columns; height 5 for a Cylinder, 3 + field_count for a Table with
\* fields (whose width is also at least the longest field line plus
\* borders and padding), 3 otherwise; and a larger border_padding never
\* yields a narrower node.
C17_NodeSizes ==
    pc = "laid" => \A id \in DOMAIN render.graph.nodes : SizedByRule(id)

\* C17 for labels without wide glyphs
C17_NarrowLabels ==
    (pc = "laid" /\ \A id \in DOMAIN graph.nodes :
                       \A i \in 1..Len(graph.nodes[id].label) :
                           graph.nodes[id].label[i] \notin WideChars)
        => \A id \in DOMAIN render.graph.nodes : SizedByRule(id)


----------------------------------------------------------------------------
(* Claims about the rows of a drawn table (checked under SpecSize)         *)

\* the character of cell <<x, y>> of grid (a space outside the grid)
CharAt(grid, x, y) == IF InGrid(grid, x, y) THEN grid.cells[y][x].c ELSE " "

\* text stands in row y of grid from column x on, each character after
\* the columns of those before it
TextAt(grid, x, y, text) ==
    \A j \in 1..Len(text) :
        CharAt(grid, x + display_width(SubSeq(text, 1, j - 1)), y) = text[j]

\* the row of the fi-th field of a table at height y
FieldRow(node, fi) == node.y + 3 + (fi - 1)

\* the fields of the drawn table node each have a row of their own inside
\* the node's box, holding the field's formatted text
FieldsHaveRows(grid, node) ==
    \A fi \in 1..Len(node.fields) :
        /\ FieldRow(node, fi) < node.y + node.height
        /\ \A fj \in 1..Len(node.fields) :
              fi # fj => FieldRow(node, fi) # FieldRow(node, fj)
        /\ TextAt(grid, node.x + 2, FieldRow(node, fi),
                  format_field_text(node.fields[fi], SatSub(node.width, 4)))

\* the bottom border of the drawn table node has a row of its own: its
\* corners stand in the last row of the box, which is no field's row
BottomBorderApart(grid, node, chars) ==
    LET bot_y == node.y + node.height - 1
    IN /\ \A fi \in 1..Len(node.fields) : FieldRow(node, fi) # bot_y
       /\ CharAt(grid, node.x, bot_y) = chars.bl
       /\ CharAt(grid, node.x + node.width - 1, bot_y) = chars.br

\* the table nodes with fields, once drawn
DrawnFieldTables ==
    IF pc = "edges"
    THEN {id \in DOMAIN render.graph.nodes :
             /\ render.graph.nodes[id].shape = "Table"
             /\ render.graph.nodes[id].fields # <<>>}
    ELSE {}

\* C18: for a Table node with n >= 1 fields laid out by compute_layout
\* (height 3 + n), after draw_table each of the n fields occupies its own
\* row inside the node's bounding box with its formatted text present, and
\* the bottom border occupies a row distinct from every field row.
C18_TableRows ==
    \A id \in DrawnFieldTables :
        /\ render.graph.nodes[id].height = 3 + Len(render.graph.nodes[id].fields)
        /\ FieldsHaveRows(render.grid, render.graph.nodes[id])
        /\ BottomBorderApart(render.grid, render.graph.nodes[id],
                             IF options.ascii THEN ASCII_CHARS ELSE UNICODE_CHARS)

\* every field but the last keeps its row and its formatted text
C18_EarlierFieldRows ==
    \A id \in DrawnFieldTables :
        LET node == render.graph.nodes[id]
        IN \A fi \in 1..(Len(node.fields) - 1) :
              TextAt(render.grid, node.x + 2, FieldRow(node, fi),
                     format_field_text(node.fields[fi], SatSub(node.width, 4)))

\* the last field's row is the row draw_table gives the bottom border,
\* whose characters stand there in place of the field's text
C18_LastFieldOnBottomRow ==
    \A id \in DrawnFieldTables :
        LET node == render.graph.nodes[id]
            chars == IF options.ascii THEN ASCII_CHARS ELSE UNICODE_CHARS
            bot_y == node.y + node.height - 1
        IN /\ FieldRow(node, Len(node.fields)) = bot_y
           /\ CharAt(render.grid, node.x, bot_y) = chars.bl
           /\ \A i \in 1..(node.width - 2) :
                 CharAt(render.grid, node.x + i, bot_y) = chars.h


----------------------------------------------------------------------------
(* Claims about subgraph bounding boxes (checked under SpecRender)         *)

\* the member nodes of subgraph sg that exist in the laid-out graph g
ExistingMembers(g, sg) ==
    {sg.nodes[i] : i \in DOMAIN sg.nodes} \cap DOMAIN g.nodes

\* the extent <<min_x, min_y, max_x, max_y>> of the rectangles of ids in g
Extent(g, ids) ==
    <<SetMin({g.nodes[id].x : id \in ids}),
      SetMin({g.nodes[id].y : id \in ids}),
      SetMax({g.nodes[id].x + g.nodes[id].width : id \in ids}),
      SetMax({g.nodes[id].y + g.nodes[id].height : id \in ids})>>

\* the box of sg is the extent e with 2 cells added on the left, on the
\* right and below, and 3 rows added above
ExpandedBy(sg, e) ==
    /\ sg.x = e[1] - SUBGRAPH_PADDING
    /\ sg.y = e[2] - (SUBGRAPH_PADDING + 1)
    /\ sg.x + sg.width = e[3] + SUBGRAPH_PADDING
    /\ sg.y + sg.height = e[4] + SUBGRAPH_PADDING

\* the rectangle of node lies inside the box of sg and off its border cells
OffBorder(sg, node) ==
    /\ sg.x < node.x /\ node.x + node.width - 1 < sg.x + sg.width - 1
    /\ sg.y < node.y /\ node.y + node.height - 1 < sg.y + sg.height - 1

\* the laid-out subgraphs without children that have an existing member
LaidLeafSubgraphs ==
    IF pc = "laid"
    THEN {i \in DOMAIN render.graph.subgraphs :
             /\ ExistingMembers(render.graph, render.graph.subgraphs[i]) # {}
             /\ \A j \in DOMAIN render.graph.subgraphs :
                   render.graph.subgraphs[j].parent
                       # Some(render.graph.subgraphs[i].id)}
    ELSE {}

\* C19: after compute_layout every subgraph with an existing member node
\* has a bounding box equal to the extent of its member rectangles
\* expanded by 2 cells on the left, right and bottom and by 3 rows on top,
\* so every member rectangle lies inside it and never touches its border
\* cells, also for members placed at x < 2 or y < 3.
C19_SubgraphBox ==
    \A i \in LaidLeafSubgraphs :
        LET sg == render.graph.subgraphs[i]
            members == ExistingMembers(render.graph, sg)
        IN /\ ExpandedBy(sg, Extent(render.graph, members))
           /\ \A id \in members : OffBorder(sg, render.graph.nodes[id])

\* the box has the expanded size, and the expanded position wherever the
\* extent leaves room for it
C19_BoxSize ==
    \A i \in LaidLeafSubgraphs :
        LET sg == render.graph.subgraphs[i]
            e == Extent(render.graph, ExistingMembers(render.graph, sg))
        IN /\ sg.width = (e[3] - e[1]) + 2 * SUBGRAPH_PADDING
           /\ sg.height = (e[4] - e[2]) + 2 * SUBGRAPH_PADDING + 1
           /\ sg.x = SatSub(e[1], SUBGRAPH_PADDING)
           /\ sg.y = SatSub(e[2], SUBGRAPH_PADDING + 1)
           /\ (e[1] >= SUBGRAPH_PADDING /\ e[2] >= SUBGRAPH_PADDING + 1)
                 => ExpandedBy(sg, e)


----------------------------------------------------------------------------
(* Claims about ASCII output (checked under SpecRender)                    *)

\* the ASCII characters of labels and drawings: letters, digits, the
\* newline and the punctuation but for the double quote; the backslash
\* and the backquote are written as the tokens "backslash" and "backquote"
AsciiChars ==
    {"a", "b", "c", "d", "e", "f", "g", "h", "i", "j", "k", "l", "m",
     "n", "o", "p", "q", "r", "s", "t", "u", "v", "w", "x", "y", "z",
     "A", "B", "C", "D", "E", "F", "G", "H", "I", "J", "K", "L", "M",
     "N", "O", "P", "Q", "R", "S", "T", "U", "V", "W", "X", "Y", "Z",
     "0", "1", "2", "3", "4", "5", "6", "7", "8", "9",
     " ", "!", "#", "$", "%", "&", "'", "(", ")", "*", "+", ",", "-", ".",
     "/", ":", ";", "<", "=", ">", "?", "@", "[", "]", "^", "_", "{",
     "|", "}", "~", "backslash", "backquote", "\n"}

\* every character of text is ASCII
AsciiText(text) == \A j \in 1..Len(text) : text[j] \in AsciiChars

\* all node, edge and subgraph labels of g are ASCII
AsciiLabels(g) ==
    /\ \A id \in DOMAIN g.nodes : AsciiText(g.nodes[id].label)
    /\ \A i \in DOMAIN g.edges :
          g.edges[i].label # None => AsciiText(g.edges[i].label[1])
    /\ \A i \in DOMAIN g.subgraphs : AsciiText(g.subgraphs[i].label)

\* C20: with RenderOptions.ascii = true and all node, edge and subgraph
\* labels ASCII, every character of the string returned by render_graph
\* is ASCII, for every node shape and max_width setting.
C20_AsciiOnly ==
    (pc = "done" /\ options.ascii /\ AsciiLabels(graph))
        => \A i \in 1..Len(ReturnedLines) : AsciiText(ReturnedLines[i])

\* with ascii = true the grid holds ASCII characters only, and the only
\* other character of the returned text is the ellipsis of a shortened line
C20_AsciiButEllipsis ==
    (pc = "done" /\ options.ascii /\ AsciiLabels(graph))
        => /\ \A p \in GridCells(render.grid) :
                 render.grid.cells[p[2]][p[1]].c \in AsciiChars
           /\ \A i \in 1..Len(ReturnedLines) :
                 \A j \in 1..Len(ReturnedLines[i]) :
                    \/ ReturnedLines[i][j] \in AsciiChars
                    \/ /\ ReturnedLines[i][j] = ELLIPSIS
                       /\ j = Len(ReturnedLines[i])
                       /\ i <= Len(render.grid_lines)


----------------------------------------------------------------------------
(* Claims about placement along the direction (checked under SpecRender)   *)

\* node u lies wholly before node v along the direction, gap cells apart
PlacedBefore(direction, u, v, h_gap, v_gap) ==
    CASE direction = "LR" -> u.x + u.width + h_gap <= v.x
      [] direction = "RL" -> v.x + v.width + h_gap <= u.x
      [] direction = "TB" -> u.y + u.height + v_gap <= v.y
      [] direction = "BT" -> v.y + v.height + v_gap <= u.y

\* g has neither a self-loop nor a duplicate edge nor a cycle, and every
\* edge joins two nodes of g
SimpleAcyclic(g) ==
    /\ EndpointsExist(g)
    /\ ~HasDuplicateEdge(g)
    /\ ~HasCycle(g)

\* the pairs <<u, v>> of laid-out nodes with layer(u) < layer(v)
LayerOrderedPairs ==
    IF pc = "laid"
    THEN {p \in (DOMAIN render.graph.nodes) \X (DOMAIN render.graph.nodes) :
             render.layers[p[1]] < render.layers[p[2]]}
    ELSE {}

\* C21: placement follows the direction: for any two nodes u, v with
\* layer(u) < layer(v) (in particular for every edge u->v of a simple
\* acyclic graph), u lies before v along the direction with at least the
\* gap in use between them (LR: u.x + u.width + gap <= v.x, RL mirrored,
\* TB: u.y + u.height + gap <= v.y, BT mirrored); with max_width unset the
\* gap is padding_x (horizontal) or padding_y (vertical).
C21_PlacementFollowsDirection ==
    pc = "laid"
        => /\ \A p \in LayerOrderedPairs :
                 PlacedBefore(graph.direction, render.graph.nodes[p[1]],
                              render.graph.nodes[p[2]],
                              render.gaps[1], render.gaps[2])
           /\ SimpleAcyclic(graph)
                 => \A i \in 1..Len(graph.edges) :
                       <<graph.edges[i].from, graph.edges[i].to>> \in LayerOrderedPairs
           /\ options.max_width = None
                 => render.gaps = <<options.padding_x, options.padding_y>>

\* a mirrored layout of an edge u->v whose gap was shrunk to fit max_width
C21_Witness ==
    /\ pc = "laid"
    /\ graph.direction = "RL"
    /\ SimpleAcyclic(graph)
    /\ render.gaps[1] < options.padding_x
    /\ \E p \in LayerOrderedPairs :
          render.graph.nodes[p[2]].x + render.graph.nodes[p[2]].width + render.gaps[1]
              = render.graph.nodes[p[1]].x


----------------------------------------------------------------------------
(* Claims about cycle breaking (checked under SpecLayers)                  *)

\* the nodes of the graph that have not been processed
UnprocessedNodes == NodeIds(graph) \ layering.processed

\* the rank of id for cycle breaking: the (1-based) index of the first edge
\* that has id as its source; an id that is never a source ranks last
SourceRank(g, id) ==
    IF \E i \in 1..Len(g.edges) : g.edges[i].from = id
    THEN SetMin({i \in 1..Len(g.edges) : g.edges[i].from = id})
    ELSE Len(g.edges) + 1

\* n comes before m for cycle breaking: earlier source, then smaller id
RanksBefore(g, n, m) ==
    \/ SourceRank(g, n) < SourceRank(g, m)
    \/ SourceRank(g, n) = SourceRank(g, m) /\ n < m

\* the edges of g are one simple directed cycle through nodes of g
IsSimpleCycle(g) ==
    /\ g.edges # <<>>
    /\ EndpointsExist(g)
    /\ \A n \in EdgeIds(g) :
          /\ Cardinality({i \in 1..Len(g.edges) : g.edges[i].from = n}) = 1
          /\ Cardinality({i \in 1..Len(g.edges) : g.edges[i].to = n}) = 1
    /\ Closure(g, {g.edges[1].from}) = EdgeIds(g)

\* the queue has run empty while nodes are unprocessed
QueueRanDry == pc = "kahn" /\ layering.queue = <<>> /\ UnprocessedNodes # {}

\* the step taken from a dry queue forces exactly one node: the
\* unprocessed node that ranks before all the others
C22_StallForcesFirstSource ==
    QueueRanDry
        => \E n \in UnprocessedNodes :
              /\ \A m \in UnprocessedNodes \ {n} : RanksBefore(graph, n, m)
              /\ layering'.forced = Append(layering.forced, n)
              /\ layering'.queue = <<n>>
              /\ layering'.in_degree[n] = 0

\* on a simple directed cycle the one forced node is the source of the
\* first listed edge, and its layer is 0
C22_SimpleCycleRoot ==
    IsSimpleCycle(graph)
        => /\ Len(layering.forced) <= 1
           /\ pc = "layered" => Len(layering.forced) = 1
           /\ \A r \in 1..Len(layering.forced) :
                 /\ layering.forced[r] = graph.edges[1].from
                 /\ layering.node_layers[layering.forced[r]] = 0

\* C22: cycle breaking: each time Kahn's queue empties with nodes
\* unprocessed, exactly one node is forced: the unprocessed node whose id
\* first appears as an edge source at the smallest edge-list index (nodes
\* that are never a source rank last), ties broken by the smallest id; for
\* a simple directed cycle with no other edges the forced node is the
\* source of the first listed edge and receives layer 0.
C22_CycleBreaking == [][C22_StallForcesFirstSource]_vars /\ []C22_SimpleCycleRoot

\* C22 for graphs whose edge endpoints are all nodes
C22_WhenEndpointsExist ==
    [][EndpointsExist(graph) => C22_StallForcesFirstSource]_vars /\ []C22_SimpleCycleRoot


----------------------------------------------------------------------------
(* Specification of compute_subgraph_bounds alone, one visit of the inner  *)
(* loop per step, over subgraph lists with any parent references           *)

MaxSubgraphs == 3

\* the ids of the subgraphs, by position in graph.subgraphs
SubgraphIds == <<"a", "b", "c", "d", "e">>

\* parent references: none, or any of the ids (an id beyond the list's
\* length names no subgraph)
BoundsParents == {None} \cup {Some(SubgraphIds[i]) : i \in 1..MaxSubgraphs}

BoundsMembers == {<<>>, <<1>>, <<1, 2>>}

\* the laid-out nodes the subgraphs group
BoundsNodes ==
    compute_layout_with_options(PlainGraph({1, 2}, <<<<1, 2>>>>),
                                DefaultOptions, AscendingOrder).graph.nodes

InitBounds ==
    /\ \E n \in 0..MaxSubgraphs :
       \E parents \in [1..n -> BoundsParents] :
       \E members \in [1..n -> BoundsMembers] :
          graph = [PlainGraph({1, 2}, <<<<1, 2>>>>) EXCEPT
                     !.nodes = BoundsNodes,
                     !.subgraphs =
                        [i \in 1..n |->
                            [id |-> SubgraphIds[i], label |-> <<"s">>,
                             nodes |-> members[i], parent |-> parents[i],
                             x |-> 0, y |-> 0, width |-> 0, height |-> 0]]]
    /\ options = DefaultOptions
    /\ hashOrder = AscendingOrder
    /\ pc = "bounds_loop"
    /\ layering = KahnInit(graph, hashOrder)
    /\ warnings = <<>>
    /\ render = NoRender
    /\ search = NoSearch
    /\ bounds = [stage |-> "loop", i |-> 1,
                 b |-> [sgs |-> graph.subgraphs, processed |-> {},
                        done_order |-> <<>>, passes |-> 0]]
    /\ gridCell = NoCell

\* one iteration of "for i in 0..sg_count"
BoundsVisit ==
    /\ pc = "bounds_loop"
    /\ bounds.i <= Len(bounds.b.sgs)
    /\ bounds' = [bounds EXCEPT !.b = SubgraphVisit(bounds.b, graph.nodes, bounds.i),
                                !.i = @ + 1]
    /\ UNCHANGED <<graph, options, hashOrder, pc, layering, warnings, render, search, gridCell>>

\* end of a pass with every id processed: "break"
BoundsBreak ==
    /\ pc = "bounds_loop"
    /\ bounds.i > Len(bounds.b.sgs)
    /\ Cardinality(bounds.b.processed) = Len(bounds.b.sgs)
    /\ bounds' = [bounds EXCEPT !.stage = "broke", !.b.passes = @ + 1]
    /\ pc' = "bounds_done"
    /\ UNCHANGED <<graph, options, hashOrder, layering, warnings, render, search, gridCell>>

\* end of a pass with ids left and passes left: the next pass
BoundsNextPass ==
    /\ pc = "bounds_loop"
    /\ bounds.i > Len(bounds.b.sgs)
    /\ Cardinality(bounds.b.processed) # Len(bounds.b.sgs)
    /\ bounds.b.passes + 1 < Len(bounds.b.sgs) + 1
    /\ bounds' = [bounds EXCEPT !.i = 1, !.b.passes = @ + 1]
    /\ UNCHANGED <<graph, options, hashOrder, pc, layering, warnings, render, search, gridCell>>

\* end of the last pass of "for _ in 0..sg_count + 1" with ids left
BoundsExhausted ==
    /\ pc = "bounds_loop"
    /\ bounds.i > Len(bounds.b.sgs)
    /\ Cardinality(bounds.b.processed) # Len(bounds.b.sgs)
    /\ bounds.b.passes + 1 >= Len(bounds.b.sgs) + 1
    /\ bounds' = [bounds EXCEPT !.stage = "exhausted", !.b.passes = @ + 1]
    /\ pc' = "bounds_done"
    /\ UNCHANGED <<graph, options, hashOrder, layering, warnings, render, search, gridCell>>

NextBounds == BoundsVisit \/ BoundsBreak \/ BoundsNextPass \/ BoundsExhausted

SpecBounds == InitBounds /\ [][NextBounds]_vars

\* the loop is a sequential program: it takes its next step
SpecBoundsFair == SpecBounds /\ WF_vars(NextBounds)

----------------------------------------------------------------------------
(* Claims about the order of the subgraph bounds (checked under SpecBounds) *)

\* the indices of the subgraphs whose parent reference names subgraph i
ChildrenOf(sgs, i) == {j \in 1..Len(sgs) : sgs[j].parent = Some(sgs[i].id)}

RECURSIVE Descendants(_, _)
\* the indices reachable from the set S by child links
Descendants(sgs, S) ==
    LET T == S \cup UNION {ChildrenOf(sgs, i) : i \in S}
    IN IF T = S THEN S ELSE Descendants(sgs, T)

\* the parent references form a forest: no subgraph is its own descendant
IsForest(sgs) ==
    \A i \in 1..Len(sgs) : i \notin Descendants(sgs, ChildrenOf(sgs, i))

\* the step-by-step run agrees with the loop as the layout runs it
BoundsAgreeWithLayout ==
    pc = "bounds_done"
        => bounds.b = SubgraphBoundsRun(graph.subgraphs, graph.nodes)

\* the order and the count of the passes, in any state of the loop
C23_BottomUp ==
    pc \in {"bounds_loop", "bounds_done"}
        => LET sgs == graph.subgraphs
               N == Len(sgs)
               done_order == bounds.b.done_order
           IN /\ bounds.b.passes <= N + 1
              /\ \A k, l \in 1..Len(done_order) : k # l => done_order[k] # done_order[l]
              /\ IsForest(sgs)
                    => /\ \A k \in 1..Len(done_order) :
                             ChildrenOf(sgs, done_order[k])
                                 \subseteq {done_order[l] : l \in 1..(k - 1)}
                       /\ pc = "bounds_done"
                             => /\ {done_order[k] : k \in 1..Len(done_order)} = 1..N
                                /\ bounds.stage = "broke"
              /\ (~IsForest(sgs) /\ pc = "bounds_done")
                    => bounds.b.passes = N + 1

\* C23: subgraph bounds are computed bottom-up: when the parent references
\* form a forest a subgraph's box is computed only after the boxes of all
\* its child subgraphs, every subgraph is processed exactly once, and the
\* pass loop ends within N + 1 passes for N subgraphs at any nesting depth;
\* when the parent references contain a cycle the loop still terminates,
\* after N + 1 passes.
C23_BottomUpAndTerminates == <>(pc = "bounds_done") /\ []C23_BottomUp

\* a chain of three nested subgraphs listed outermost first, which takes
\* one pass per level
C23_Witness ==
    /\ pc = "bounds_done"
    /\ Len(graph.subgraphs) = 3
    /\ graph.subgraphs[2].parent = Some("a")
    /\ graph.subgraphs[3].parent = Some("b")
    /\ graph.subgraphs[1].parent = None
    /\ bounds.b.done_order = <<3, 2, 1>>
    /\ bounds.b.passes = 3


----------------------------------------------------------------------------
(* Specification of the layout over paddings and width limits:             *)
(* compute_layout_with_options on graphs of up to three nodes              *)

\* values of RenderOptions.padding_x and RenderOptions.max_width
GapPaddings == {0, 1, 3, 8}
GapMaxWidths == {None, Some(0), Some(11), Some(24), Some(40)}

\* nodes 1 and 2 carry their id, node 3 carries a long label
GapGraph(direction, pairs) ==
    [PlainGraph(RenderIds, pairs) EXCEPT
        !.direction = direction,
        !.nodes = [id \in RenderIds |->
                      NewNode(id, IF id = MaxRenderId THEN LongLabel ELSE IdLabel(id),
                              "Rectangle")]]

InitGaps ==
    /\ \E direction \in {"LR", "RL", "TB", "BT"} :
       \E pairs \in UNION {[1..m -> RenderIds \X RenderIds] : m \in 0..MaxRenderEdges} :
          graph = GapGraph(direction, pairs)
    /\ \E px \in GapPaddings : \E mw \in GapMaxWidths :
          options = [DefaultOptions EXCEPT !.padding_x = px, !.max_width = mw]
    /\ hashOrder = AscendingOrder
    /\ pc = "input"
    /\ layering = KahnInit(graph, hashOrder)
    /\ warnings = <<>>
    /\ render = NoRender
    /\ search = NoSearch
    /\ bounds = NoBounds
    /\ gridCell = NoCell

NextGaps == Layout

SpecGaps == InitGaps /\ [][NextGaps]_vars

----------------------------------------------------------------------------
(* Claims about the gaps (checked under SpecGaps)                          *)

\* the number of layers of the layer map
LayerCount(layers) == 1 + SetMax({layers[id] : id \in DOMAIN layers} \cup {0})

\* the largest width among the nodes of layer l (0 when it has none)
LayerMaxWidth(nodes, layers, l) ==
    SetMax({nodes[id].width : id \in {n \in DOMAIN nodes : layers[n] = l}} \cup {0})

RECURSIVE SumOfLayerWidths(_, _, _)
\* the sum of the largest widths of the layers 0 .. l
SumOfLayerWidths(nodes, layers, l) ==
    LayerMaxWidth(nodes, layers, l)
    + (IF l = 0 THEN 0 ELSE SumOfLayerWidths(nodes, layers, l - 1))

\* the diagram is horizontal, has a width limit and at least two layers,
\* and its natural width exceeds the limit
MustShrink ==
    /\ graph.direction \in {"LR", "RL"}
    /\ options.max_width # None
    /\ LayerCount(render.layers) >= 2
    /\ SumOfLayerWidths(render.graph.nodes, render.layers, LayerCount(render.layers) - 1)
          + (LayerCount(render.layers) - 1) * options.padding_x
              > options.max_width[1]

\* the gap a diagram that must shrink gets
ShrunkenGap ==
    LET layer_count == LayerCount(render.layers)
        node_width == SumOfLayerWidths(render.graph.nodes, render.layers, layer_count - 1)
        room == IF options.max_width[1] > node_width
                THEN options.max_width[1] - node_width ELSE 0
    IN Max2(2, room \div (layer_count - 1))

\* C24: the vertical gap always equals padding_y; the horizontal gap equals
\* padding_x unless the direction is LR/RL, max_width is set, there are at
\* least two layers and the natural width (sum of the layers' maximum node
\* widths plus (layers - 1) * padding_x) exceeds max_width, in which case it
\* is max(2, floor((max_width - sum of layer maximum widths) / (layers - 1)))
\* with the numerator saturating at 0.
C24_GapCalculation ==
    pc = "laid"
        => /\ render.gaps[2] = options.padding_y
           /\ render.gaps[1] = IF MustShrink THEN ShrunkenGap ELSE options.padding_x

\* a gap shrunk from 8 to a value above the floor: two layers of widths
\* 12 and 5 under max_width 24
C24_Witness ==
    /\ pc = "laid"
    /\ MustShrink
    /\ options.padding_x = 8
    /\ render.gaps[1] = 7

\* C30: the horizontal gap returned by calculate_gaps never exceeds the
\* configured padding_x: fitting a diagram to max_width only ever shrinks
\* the gap, for every padding_x >= 0 (0 and 1 included).
C30_GapNeverGrows ==
    pc = "laid" => render.gaps[1] <= options.padding_x

\* C30 for paddings of at least MIN_GAP
C30_FromMinGap ==
    (pc = "laid" /\ options.padding_x >= MIN_GAP) => render.gaps[1] <= options.padding_x


----------------------------------------------------------------------------
(* Specification of one grid cell under set_line_with_merge and            *)
(* mark_protected calls, one call per step                                 *)

MaxCalls == 3

\* the line characters and the cross glyphs of the two character sets
LineChars == {UNICODE_CHARS.h, UNICODE_CHARS.v, ASCII_CHARS.h, ASCII_CHARS.v}
CrossChars == {UNICODE_CHARS.cross, ASCII_CHARS.cross}

InitCell ==
    /\ graph = PlainGraph({}, <<>>)
    /\ options = DefaultOptions
    /\ hashOrder = AscendingOrder
    /\ pc = "cell"
    /\ layering = KahnInit(graph, hashOrder)
    /\ warnings = <<>>
    /\ render = NoRender
    /\ search = NoSearch
    /\ bounds = NoBounds
    /\ \E cross \in CrossChars :
          gridCell = [stage |-> "cell", cell |-> EmptyCell, cross |-> cross,
                      calls |-> <<>>]

\* grid.set_line_with_merge(x, y, c, is_horizontal, chars) on the cell
MergeCall ==
    /\ pc = "cell"
    /\ Len(gridCell.calls) < MaxCalls
    /\ \E c \in LineChars : \E is_horizontal \in BOOLEAN :
          gridCell' = [gridCell EXCEPT
             !.cell = CellSetLineWithMerge(@, c, is_horizontal, gridCell.cross),
             !.calls = Append(@, [c |-> c, is_horizontal |-> is_horizontal,
                                  returned |-> SetLineWithMergeReturns(gridCell.cell)])]
    /\ UNCHANGED <<graph, options, hashOrder, pc, layering, warnings, render, search, bounds>>

\* grid.mark_protected(x, y) on the cell
ProtectCall ==
    /\ pc = "cell"
    /\ ~gridCell.cell.protected
    /\ gridCell' = [gridCell EXCEPT !.cell = CellMarkProtected(@)]
    /\ UNCHANGED <<graph, options, hashOrder, pc, layering, warnings, render, search, bounds>>

NextCell == MergeCall \/ ProtectCall

SpecCell == InitCell /\ [][NextCell]_vars

----------------------------------------------------------------------------
(* Claims about junction merging (checked under SpecCell)                  *)

\* the calls of set_line_with_merge that found the cell unprotected
AppliedCalls == SelectSeq(gridCell.calls, LAMBDA call : call.returned)

\* C25: junction merging is order-independent: on an unprotected cell,
\* once set_line_with_merge has been applied at least once with
\* is_horizontal = true and at least once with is_horizontal = false, in
\* either order, the cell holds the cross glyph and further calls in any
\* direction keep it; with calls of only one orientation the cell holds
\* the plain line character passed in.
C25_JunctionMerging ==
    (pc = "cell" /\ AppliedCalls # <<>>)
        => LET applied == AppliedCalls
               orientations == {applied[i].is_horizontal : i \in 1..Len(applied)}
           IN gridCell.cell.c = IF orientations = BOOLEAN
                                THEN gridCell.cross
                                ELSE applied[Len(applied)].c

\* a vertical call merged into a horizontal line, and a further horizontal
\* call that kept the cross
C25_Witness ==
    /\ pc = "cell"
    /\ Len(AppliedCalls) = 3
    /\ AppliedCalls[1].is_horizontal
    /\ ~AppliedCalls[2].is_horizontal
    /\ AppliedCalls[3].is_horizontal
    /\ gridCell.cell.c = gridCell.cross

----------------------------------------------------------------------------
(* C26: what the layout and the rendering leave alone                       *)

\* the fields compute_layout_with_options assigns
GeometryFields == {"x", "y", "width", "height"}

\* two records that agree on every field outside the geometry
SameButGeometry(r, s) ==
    /\ DOMAIN r = DOMAIN s
    /\ \A f \in DOMAIN r \ GeometryFields : r[f] = s[f]

\* the Graph after differs from the Graph before in geometry only
OnlyGeometryChanged(before, after) ==
    /\ DOMAIN after = DOMAIN before
    /\ after.direction = before.direction
    /\ after.edges = before.edges
    /\ DOMAIN after.nodes = DOMAIN before.nodes
    /\ \A id \in DOMAIN before.nodes :
          SameButGeometry(before.nodes[id], after.nodes[id])
    /\ Len(after.subgraphs) = Len(before.subgraphs)
    /\ \A i \in DOMAIN before.subgraphs :
          SameButGeometry(before.subgraphs[i], after.subgraphs[i])

\* the Graph as compute_layout_with_options left it
LayoutKeepsContent ==
    pc = "laid" => OnlyGeometryChanged(graph, render.graph)

\* a step of render_graph that has not panicked hands on the Graph it was given
RenderKeepsGraph ==
    (pc \in {"laid", "edges"} /\ pc' \in {"edges", "done"})
        => render'.graph = render.graph

\* C26: compute_layout_with_options changes only the x, y, width and height
\* of nodes and subgraphs: the node id set, labels, shapes, fields, subgraph
\* membership and parents, the edge list (content and order) and the
\* direction are as in the input; and no step of render_graph changes the
\* Graph.
C26_OnlyGeometry ==
    []LayoutKeepsContent /\ [][RenderKeepsGraph]_vars

\* the rendering has finished on a graph with a subgraph and an edge to an
\* absent id, whose layout moved a node and gave the subgraph a box
C26_Witness ==
    /\ pc = "done"
    /\ graph.subgraphs # <<>>
    /\ \E i \in DOMAIN graph.edges : graph.edges[i].to \notin DOMAIN graph.nodes
    /\ OnlyGeometryChanged(graph, render.graph)
    /\ \E id \in DOMAIN graph.nodes : render.graph.nodes[id] # graph.nodes[id]
    /\ render.graph.subgraphs # graph.subgraphs

----------------------------------------------------------------------------
(* C27: render_graph never reaches the A* search                            *)

\* the edges draw_edge is called for (both endpoints exist) whose anchors
\* differ on both axes: the ones for which it calls find_path
BentEdges(g) ==
    {i \in DOMAIN g.edges :
        /\ g.edges[i].from \in DOMAIN g.nodes
        /\ g.edges[i].to \in DOMAIN g.nodes
        /\ LET a == EdgeAnchors(g.nodes[g.edges[i].from], g.nodes[g.edges[i].to],
                                g.direction)
           IN a[1] # a[3] /\ a[2] # a[4]}

\* the anchor of edge i that lies on a node: the goal for LR and TB (on the
\* target), the start for RL and BT (on the source); with the node it lies on
AnchorOnNode(g, i) ==
    LET from == g.nodes[g.edges[i].from]
        to == g.nodes[g.edges[i].to]
        a == EdgeAnchors(from, to, g.direction)
    IN IF g.direction \in {"LR", "TB"}
       THEN [pos |-> <<a[3], a[4]>>, node |-> to]
       ELSE [pos |-> <<a[1], a[2]>>, node |-> from]

\* find_path's answer for edge i on the path grid: None at its first test
FindPathIsNone(path_grid, g, i) ==
    LET a == EdgeAnchors(g.nodes[g.edges[i].from], g.nodes[g.edges[i].to], g.direction)
    IN ~FindPathSearches(path_grid, <<a[1], a[2]>>, <<a[3], a[4]>>)

\* while render_graph draws edges: every bent edge has its anchor inside a
\* blocked node rectangle, find_path answers None, and no edge so far has
\* been given to draw_astar_path
AnchorsAreBlocked ==
    pc \in {"edges", "done"} =>
        /\ \A i \in BentEdges(render.graph) :
              LET an == AnchorOnNode(render.graph, i)
              IN /\ an.pos \in block_rect(an.node.x, an.node.y,
                                           an.node.width, an.node.height)
                 /\ an.pos \in render.path_grid.blocked
                 /\ FindPathIsNone(render.path_grid, render.graph, i)
        /\ ~render.astar

\* no step of the edge loop unblocks a cell
NeverUnblocked ==
    (pc = "edges" /\ pc' \in {"edges", "done"})
        => render'.path_grid = render.path_grid

----------------------------------------------------------------------------
(* C28: node rectangles are disjoint and every rectangle is on the grid     *)

\* [x, x+width) x [y, y+height) of two boxes have no cell in common
RectsDisjoint(a, b) ==
    \/ a.x + a.width <= b.x
    \/ b.x + b.width <= a.x
    \/ a.y + a.height <= b.y
    \/ b.y + b.height <= a.y

\* the box lies in a grid of the given width and height
RectInside(r, width, height) ==
    r.x + r.width <= width /\ r.y + r.height <= height

\* every node and subgraph rectangle of g lies in a width x height grid
AllInside(g, width, height) ==
    /\ \A id \in DOMAIN g.nodes : RectInside(g.nodes[id], width, height)
    /\ \A i \in DOMAIN g.subgraphs : RectInside(g.subgraphs[i], width, height)

\* the laid-out nodes are pairwise disjoint
NodesDisjoint(g) ==
    \A a, b \in DOMAIN g.nodes : a # b => RectsDisjoint(g.nodes[a], g.nodes[b])

----------------------------------------------------------------------------
(* C29: assign_layers terminates with every node processed                  *)

\* a round of the outer loop that does not exit forces one id that is not
\* yet processed, which the next step of the queue loop processes
C29_RoundForcesUnprocessed ==
    /\ (pc = "kahn" /\ layering.queue = <<>> /\ pc' = "kahn")
          => \E n \in DOMAIN layering.in_degree \ layering.processed :
                /\ layering'.queue = <<n>>
                /\ layering'.forced = Append(layering.forced, n)
                /\ layering'.processed = layering.processed
    /\ (pc = "kahn" /\ layering.queue # <<>>)
          => /\ layering.processed \subseteq layering'.processed
             /\ Head(layering.queue) \in layering'.processed

\* the layer of a processed id is never changed
C29_ProcessedLayerKept ==
    \A n \in layering.processed :
        /\ LayerOf(layering'.node_layers, n) = LayerOf(layering.node_layers, n)
        /\ n \in layering'.processed

\* when the outer loop has exited, every node of graph.nodes was processed
C29_AllProcessedOnExit ==
    pc = "layered" => UnprocessedNodes = {}

\* C29: assign_layers on any graph (cyclic graphs, self-loops, duplicate
\* edges and edges naming absent ids included): each round of the outer loop
\* either exits or forces one unprocessed node, so the processed set grows;
\* on exit every node of graph.nodes has been processed; and the layer of a
\* processed node is never changed afterwards.
C29_AssignLayersCompletes ==
    /\ [][C29_RoundForcesUnprocessed /\ C29_ProcessedLayerKept]_vars
    /\ []C29_AllProcessedOnExit

\* C29 for graphs whose edge endpoints are all nodes
C29_WhenEndpointsExist ==
    /\ [][C29_RoundForcesUnprocessed /\ C29_ProcessedLayerKept]_vars
    /\ [](EndpointsExist(graph) => C29_AllProcessedOnExit)

\* a bound on the steps assign_layers still has to take: the ids left to
\* process weigh more than anything the queue can hold, and an empty queue
\* (a round about to force or to exit) more than a filled one
C29_StepsLeft ==
    IF pc = "layered" THEN 0
    ELSE 1 + Cardinality(DOMAIN layering.in_degree \ layering.processed)
                * (Len(graph.edges) + 3)
           + (IF layering.queue = <<>> THEN Len(graph.edges) + 2
              ELSE Len(layering.queue))

\* a round that does not exit has an id to force
C29_NeverStuck ==
    (pc = "kahn" /\ layering.queue = <<>> /\ ~KahnExit(graph, layering))
        => DOMAIN layering.in_degree \ layering.processed # {}

\* assign_layers terminates on every graph: each of its steps lowers the bound
C29_Terminates == [][C29_StepsLeft' < C29_StepsLeft]_vars

====
